---- MODULE Spec2Model ----
(***************************************************************************)
(* Verification model of the motion tracking core of the repository:       *)
(*   src/lib/kalman-filter.ts   (class KalmanFilter)                      *)
(*   src/lib/motion-tracker.ts  (class MotionTracker)                     *)
(*                                                                         *)
(* Numbers.  JavaScript numbers are IEEE-754 binary floating point with    *)
(* 53 significant bits.  They are modelled as decimal floating point with  *)
(* 8 significant digits: a finite non-zero number is << m, e >>, standing  *)
(* for m * 10^e with Lo <= |m| < Hi, zero is << 0, 0 >>, and every         *)
(* arithmetic result is rounded to 8 digits.  The exponent is unbounded    *)
(* (the values explored stay far from the overflow threshold of a double). *)
(* PInf, NInf and NaN follow the IEEE rules: x/0, 0/0, Inf - Inf, 0 * Inf, *)
(* comparisons with NaN are false.  Negative zero is not represented: the  *)
(* code never branches on the sign of a zero (sums start from +0,          *)
(* Math.sign(-0) === 0 is true, Math.abs(-0) is 0).                        *)
(* Timestamps are integer milliseconds.                                    *)
(*                                                                         *)
(* Evaluation.  The code evaluates an argument or a const initialiser      *)
(* once and then uses the value.  Bind and Bind2 do the same: the          *)
(* expression is evaluated once and the operator is applied to its value.  *)
(***************************************************************************)
EXTENDS Integers, Sequences, FiniteSets, TLC

\* const w = v; F(w)
Bind(v, F(_)) == CHOOSE r \in {F(w) : w \in {v}} : TRUE
\* const w1 = v1, w2 = v2; F(w1, w2)
Bind2(v1, v2, F(_, _)) ==
  CHOOSE r \in {F(w1, w2) : w1 \in {v1}, w2 \in {v2}} : TRUE

\* ------------------------------------------------------------------------
\* Number format
\* ------------------------------------------------------------------------
Half == 10^4              \* the mantissa splits into two halves of 4 digits
Lo == 10^7
Hi == 10^8
ESpecial == 10^6          \* exponent field marking the special values

Zero == << 0, 0 >>
PInf == << 1, ESpecial >>
NInf == << 0 - 1, ESpecial >>
NaN == << 0, ESpecial >>

IsNaN(a) == a = NaN
IsInf(a) == a = PInf \/ a = NInf
IsFinite(a) == a[2] # ESpecial

AbsI(n) == IF n < 0 THEN 0 - n ELSE n
SgnI(n) == IF n < 0 THEN 0 - 1 ELSE IF n > 0 THEN 1 ELSE 0

\* the number s * m * 10^e for a sign s and an integer 0 <= m < 2^31,
\* rounded to 8 digits
Norm(s, m, e) ==
  Bind(m, LAMBDA v :
    IF v = 0 THEN Zero
    ELSE IF v >= Hi
      THEN Bind((v + 5) \div 10, LAMBDA w :
             IF w >= Hi THEN << s * ((w + 5) \div 10), e + 2 >>
             ELSE << s * w, e + 1 >>)
    ELSE IF v < Lo
      THEN Bind(CHOOSE k \in 1..7 : 10^(7 - k) <= v /\ v < 10^(8 - k),
                LAMBDA k : << s * v * 10^k, e - k >>)
    ELSE << s * v, e >>)

\* the integer n as a number (|n| < 2^31)
Num(n) == Norm(SgnI(n), AbsI(n), 0)
\* the decimal n * 10^(-k), e.g. 0.1 == Dec(1, 1)
Dec(n, k) == Norm(SgnI(n), AbsI(n), 0 - k)
One == Num(1)

Neg(a) == Bind(a, LAMBDA v : << 0 - v[1], v[2] >>)

\* a + b for finite a, b with a[2] >= b[2]; one guard digit
AddAligned(a, b) ==
  LET d == a[2] - b[2]
  IN  IF d > 9 THEN a
      ELSE Bind(10 * a[1]
                  + SgnI(b[1]) * ((AbsI(b[1]) * 10 + (10^d) \div 2) \div (10^d)),
                LAMBDA sum : Norm(SgnI(sum), AbsI(sum), a[2] - 1))

Add(a, b) ==
  Bind2(a, b, LAMBDA x, y :
    IF x[2] # ESpecial /\ y[2] # ESpecial
      THEN (IF x[1] = 0 THEN y
            ELSE IF y[1] = 0 THEN x
            ELSE IF x[2] >= y[2] THEN AddAligned(x, y) ELSE AddAligned(y, x))
    ELSE IF x = NaN \/ y = NaN THEN NaN
    ELSE IF IsInf(x) THEN (IF IsInf(y) /\ y # x THEN NaN ELSE x)
    ELSE y)

Sub(a, b) == Add(a, Neg(b))

\* |a| * |b| for finite non-zero a, b: the leading digits of the 16-digit
\* product of the mantissas
MulMag(s, x, y, e) ==
  LET xh == x \div Half
      xl == x % Half
      yh == y \div Half
      yl == y % Half
  IN  Bind(xh * yl + xl * yh + (xl * yl) \div Half, LAMBDA mid :
      Bind2(xh * yh + mid \div Half, mid % Half, LAMBDA q, r :
        IF q >= Lo
          THEN Norm(s, q + (IF 2 * r >= Half THEN 1 ELSE 0), e + 8)
          ELSE Norm(s, 10 * q + (10 * r + Half \div 2) \div Half, e + 7)))

Mul(a, b) ==
  Bind2(a, b, LAMBDA x, y :
    IF x[2] # ESpecial /\ y[2] # ESpecial
      THEN (IF x[1] = 0 \/ y[1] = 0 THEN Zero
            ELSE IF x = One THEN y
            ELSE IF y = One THEN x
            ELSE MulMag(SgnI(x[1]) * SgnI(y[1]), AbsI(x[1]), AbsI(y[1]),
                        x[2] + y[2]))
    ELSE IF x = NaN \/ y = NaN THEN NaN
    ELSE IF x = Zero \/ y = Zero THEN NaN
    ELSE IF SgnI(x[1]) * SgnI(y[1]) < 0 THEN NInf ELSE PInf)

\* the digits of r / y after q, one decimal digit per step, k steps
RECURSIVE DivDigits(_, _, _, _)
DivDigits(q, r, y, k) ==
  Bind2(q, r, LAMBDA qv, rv :
    IF k = 0 THEN (IF 2 * rv >= y THEN qv + 1 ELSE qv)
    ELSE DivDigits(10 * qv + (10 * rv) \div y, (10 * rv) % y, y, k - 1))

\* |a| / |b| for finite non-zero a, b, by long division of the mantissas
DivMag(s, x, y, e) ==
  IF x >= y THEN Norm(s, DivDigits(x \div y, x % y, y, 7), e - 7)
  ELSE Norm(s, DivDigits(0, x, y, 8), e - 8)

Div(a, b) ==
  Bind2(a, b, LAMBDA x, y :
    IF x[2] # ESpecial /\ y[2] # ESpecial
      THEN (IF y[1] = 0
              THEN (IF x[1] = 0 THEN NaN ELSE IF x[1] > 0 THEN PInf ELSE NInf)
            ELSE IF x[1] = 0 THEN Zero
            ELSE DivMag(SgnI(x[1]) * SgnI(y[1]), AbsI(x[1]), AbsI(y[1]),
                        x[2] - y[2]))
    ELSE IF x = NaN \/ y = NaN THEN NaN
    ELSE IF IsInf(x)
      THEN (IF IsInf(y) THEN NaN
            ELSE IF (x[1] > 0) = (y[1] >= 0) THEN PInf ELSE NInf)
    ELSE Zero)

\* the sign of a - b for a, b that are not NaN
Cmp(a, b) ==
  Bind2(a, b, LAMBDA x, y :
    IF x = y THEN 0
    ELSE IF IsInf(x) THEN x[1]
    ELSE IF IsInf(y) THEN 0 - y[1]
    ELSE IF SgnI(x[1]) # SgnI(y[1]) THEN (IF x[1] < y[1] THEN 0 - 1 ELSE 1)
    ELSE IF x[2] # y[2]
      THEN (IF (x[2] < y[2]) = (x[1] > 0) THEN 0 - 1 ELSE 1)
    ELSE IF x[1] < y[1] THEN 0 - 1 ELSE 1)

\* a < b, a > b as JavaScript evaluates them (false when either is NaN)
Lt(a, b) == Bind2(a, b, LAMBDA x, y : x # NaN /\ y # NaN /\ Cmp(x, y) < 0)
Gt(a, b) == Lt(b, a)

\* Math.abs, Math.sign
MathAbs(a) == Bind(a, LAMBDA v : << AbsI(v[1]), v[2] >>)
MathSign(a) == Bind(a, LAMBDA v : IF v = NaN THEN NaN ELSE Num(SgnI(v[1])))

\* floor(a) as an integer, for a finite a of magnitude below 2^31
Floor(a) ==
  Bind(a, LAMBDA v :
    IF v[2] >= 0 THEN v[1] * 10^(v[2])
    ELSE IF v[2] < 0 - 9 THEN (IF v[1] < 0 THEN 0 - 1 ELSE 0)
    ELSE v[1] \div 10^(0 - v[2]))

\* ------------------------------------------------------------------------
\* Arrays.  A vector is a tuple of numbers, a matrix a tuple of rows.
\* ------------------------------------------------------------------------

\* the tuple << f[1], ..., f[n] >>
RECURSIVE Tab(_, _)
Tab(f, n) == IF n = 0 THEN << >> ELSE Append(Tab(f, n - 1), f[n])

\* 0 + f[1] + ... + f[n], added in index order as the loops of the code do
RECURSIVE SumTo(_, _)
SumTo(f, n) == IF n = 0 THEN Zero ELSE Add(SumTo(f, n - 1), f[n])

\* matrixMultiply, case 2: matrix * vector
matrixMultiplyMV(a, b) ==
  Bind2(a, b, LAMBDA m, v :
    Tab([i \in 1..Len(m) |->
           SumTo([j \in 1..Len(v) |-> Mul(m[i][j], v[j])], Len(v))], Len(m)))

\* matrixMultiply, case 3: matrix * matrix
matrixMultiplyMM(a, b) ==
  Bind2(a, b, LAMBDA m, n :
    Tab([i \in 1..Len(m) |->
           Tab([j \in 1..Len(n[1]) |->
                  SumTo([k \in 1..Len(n) |-> Mul(m[i][k], n[k][j])], Len(n))],
               Len(n[1]))], Len(m)))

\* matrixMultiply throws when none of its three cases applies: both operands
\* are vectors.  a and b are the kinds of the operands, "vector" (number[])
\* or "matrix" (number[][]), which the casts at each call fix.
matrixMultiplyThrows(a, b) ==
  ~ \/ (a = "vector" /\ b = "matrix")
    \/ (a = "matrix" /\ b = "vector")
    \/ (a = "matrix" /\ b = "matrix")

transpose(matrix) ==
  Bind(matrix, LAMBDA m :
    Tab([i \in 1..Len(m[1]) |->
           Tab([r \in 1..Len(m) |-> m[r][i]], Len(m))],
        Len(m[1])))

matrixAdd(a, b) ==
  Bind2(a, b, LAMBDA m, n :
    Tab([i \in 1..Len(m) |->
           Tab([j \in 1..Len(m[i]) |-> Add(m[i][j], n[i][j])], Len(m[i]))],
        Len(m)))

matrixSubtract(a, b) ==
  Bind2(a, b, LAMBDA m, n :
    Tab([i \in 1..Len(m) |->
           Tab([j \in 1..Len(m[i]) |-> Sub(m[i][j], n[i][j])], Len(m[i]))],
        Len(m)))

vectorAdd(a, b) ==
  Bind2(a, b, LAMBDA v, w : Tab([i \in 1..Len(v) |-> Add(v[i], w[i])], Len(v)))

vectorSubtract(a, b) ==
  Bind2(a, b, LAMBDA v, w : Tab([i \in 1..Len(v) |-> Sub(v[i], w[i])], Len(v)))

identity(size) ==
  Tab([i \in 1..size |->
         Tab([j \in 1..size |-> IF i = j THEN One ELSE Zero], size)], size)

\* the determinant inverse2x2 divides by
determinant(matrix) ==
  Bind(matrix, LAMBDA m : Sub(Mul(m[1][1], m[2][2]), Mul(m[1][2], m[2][1])))

inverse2x2(matrix) ==
  Bind(matrix, LAMBDA m :
  Bind(determinant(m), LAMBDA det :
    << << Div(m[2][2], det), Div(Neg(m[1][2]), det) >>,
       << Div(Neg(m[2][1]), det), Div(m[1][1], det) >> >>))

\* ------------------------------------------------------------------------
\* class KalmanFilter.  An instance is a record of its four fields.
\* ------------------------------------------------------------------------

\* constructor(initialX, initialY, processNoise, measurementNoise)
KalmanFilter(initialX, initialY, processNoise, measurementNoise) ==
  [ state |-> << initialX, initialY, Zero, Zero >>,
    covariance |-> << << Num(100), Zero, Zero, Zero >>,
                      << Zero, Num(100), Zero, Zero >>,
                      << Zero, Zero, Num(100), Zero >>,
                      << Zero, Zero, Zero, Num(100) >> >>,
    processNoise |-> processNoise,
    measurementNoise |-> measurementNoise ]

\* new KalmanFilter(): the default parameter values
NewKalmanFilter == KalmanFilter(Zero, Zero, Dec(1, 1), One)

\* a process noise that couples x and y
createProcessNoiseMatrixCoupled(k, dt) ==
  Bind2(k.processNoise, dt, LAMBDA q, t :
  Bind(Mul(t, t), LAMBDA dt2 :
  Bind(Mul(dt2, t), LAMBDA dt3 :
  Bind(Mul(dt3, t), LAMBDA dt4 :
  Bind2(Mul(Div(dt4, Num(4)), q), Mul(Div(dt3, Num(2)), q), LAMBDA q11, q13 :
  Bind(Mul(dt2, q), LAMBDA q33 :
    << << q11, q13, q13, Zero >>,
       << q13, q11, Zero, q13 >>,
       << q13, Zero, q33, Zero >>,
       << Zero, q13, Zero, q33 >> >>))))))

createProcessNoiseMatrix(k, dt) ==
  Bind2(k.processNoise, dt, LAMBDA q, t :
  Bind(Mul(t, t), LAMBDA dt2 :
  Bind(Mul(dt2, t), LAMBDA dt3 :
  Bind(Mul(dt3, t), LAMBDA dt4 :
  Bind2(Mul(Div(dt4, Num(4)), q), Mul(Div(dt3, Num(2)), q), LAMBDA q11, q13 :
  Bind(Mul(dt2, q), LAMBDA q33 :
    << << q11, Zero, q13, Zero >>,
       << Zero, q11, Zero, q13 >>,
       << q13, Zero, q33, Zero >>,
       << Zero, q13, Zero, q33 >> >>))))))

\* a transition that also advances the velocity by the position
predictCoupled(kf, dt) ==
  Bind2(kf, dt, LAMBDA k, t :
    LET F == << << One, Zero, t, Zero >>,
                << Zero, One, Zero, t >>,
                << t, Zero, One, Zero >>,
                << Zero, t, Zero, One >> >>
        predictedState == matrixMultiplyMV(F, k.state)
        Q == createProcessNoiseMatrix(k, t)
        FP == matrixMultiplyMM(F, k.covariance)
        FPFt == matrixMultiplyMM(FP, transpose(F))
    IN  [k EXCEPT !.state = predictedState,
                  !.covariance = matrixAdd(FPFt, Q)])

\* predict(dt): the filter after the call; the call returns its state
\* as {x, y, dx, dy}
predict(kf, dt) ==
  Bind2(kf, dt, LAMBDA k, t :
    LET F == << << One, Zero, t, Zero >>,
                << Zero, One, Zero, t >>,
                << Zero, Zero, One, Zero >>,
                << Zero, Zero, Zero, One >> >>
        predictedState == matrixMultiplyMV(F, k.state)
        Q == createProcessNoiseMatrix(k, t)
        FP == matrixMultiplyMM(F, k.covariance)
        FPFt == matrixMultiplyMM(FP, transpose(F))
    IN  [k EXCEPT !.state = predictedState,
                  !.covariance = matrixAdd(FPFt, Q)])

\* the operand kinds of the matrixMultiply calls of predict(): the one
\* before this.state is assigned, and the ones after it
predictCallsBeforeState == { << "matrix", "vector" >> }
predictCallsAfterState == { << "matrix", "matrix" >> }

\* the operand kinds of the matrixMultiply calls of update(): the ones
\* before this.state is assigned, and the ones after it
updateCallsBeforeState == { << "matrix", "matrix" >>, << "matrix", "vector" >> }
updateCallsAfterState == { << "matrix", "matrix" >> }

anyThrows(calls) == \E c \in calls : matrixMultiplyThrows(c[1], c[2])

predictResult(kf) ==
  Bind(kf, LAMBDA k :
    [x |-> k.state[1], y |-> k.state[2], dx |-> k.state[3], dy |-> k.state[4]])

\* the measurement matrix H of update()
measurementMatrix ==
  << << One, Zero, Zero, Zero >>,
     << Zero, One, Zero, Zero >> >>

\* the innovation covariance S = H*P*H' + R that update() inverts
innovationCovariance(kf) ==
  Bind(kf, LAMBDA k :
    LET H == measurementMatrix
        R == << << k.measurementNoise, Zero >>,
                << Zero, k.measurementNoise >> >>
        HP == matrixMultiplyMM(H, k.covariance)
    IN  matrixAdd(matrixMultiplyMM(HP, transpose(H)), R))

\* an update whose innovation is H*x - z instead of z - H*x
updateReversed(kf, measurement) ==
  Bind2(kf, measurement, LAMBDA k, z :
    LET H == measurementMatrix
        Ht == transpose(H)
        PHt == matrixMultiplyMM(k.covariance, Ht)
        S == innovationCovariance(k)
        measurementVector == << z.x, z.y >>
        innovation == vectorSubtract(matrixMultiplyMV(H, k.state),
                                     measurementVector)
        I == identity(4)
    IN  Bind(matrixMultiplyMM(PHt, inverse2x2(S)), LAMBDA K :
          LET newState == vectorAdd(k.state, matrixMultiplyMV(K, innovation))
              KH == matrixMultiplyMM(K, H)
          IN  [k EXCEPT !.state = newState,
                        !.covariance = matrixMultiplyMM(matrixSubtract(I, KH),
                                                        k.covariance)]))

\* update(measurement): the filter after the call
update(kf, measurement) ==
  Bind2(kf, measurement, LAMBDA k, z :
    LET H == measurementMatrix
        Ht == transpose(H)
        PHt == matrixMultiplyMM(k.covariance, Ht)
        S == innovationCovariance(k)
        measurementVector == << z.x, z.y >>
        innovation == vectorSubtract(measurementVector,
                                     matrixMultiplyMV(H, k.state))
        I == identity(4)
    IN  Bind(matrixMultiplyMM(PHt, inverse2x2(S)), LAMBDA K :
          LET newState == vectorAdd(k.state, matrixMultiplyMV(K, innovation))
              KH == matrixMultiplyMM(K, H)
          IN  [k EXCEPT !.state = newState,
                        !.covariance = matrixMultiplyMM(matrixSubtract(I, KH),
                                                        k.covariance)]))

\* ------------------------------------------------------------------------
\* Math.sqrt, Math.atan2, Math.round, Math.PI in the number format
\* ------------------------------------------------------------------------
PI == Dec(31415927, 7)
HalfPI == Dec(15707963, 7)
QuarterPI == Dec(78539816, 8)

\* floor(sqrt(n)) for an integer n, by 16-way search: lo * lo <= n < hi * hi
RECURSIVE ISqrt(_, _, _)
ISqrt(n, lo, hi) ==
  IF hi - lo <= 1 THEN lo
  ELSE LET step == (hi - lo + 15) \div 16
           at(k) == IF lo + k * step < hi THEN lo + k * step ELSE hi
           k == CHOOSE j \in 0..15 :
                  at(j) * at(j) <= n /\ (at(j + 1) = hi \/ at(j + 1) * at(j + 1) > n)
       IN  ISqrt(n, at(k), at(k + 1))

\* the next decimal digit of a square root (long-hand method)
SqrtDigit(root, rem) ==
  CHOOSE d \in 0..9 :
    /\ (20 * root + d) * d <= 100 * rem
    /\ (d = 9 \/ (20 * root + d + 1) * (d + 1) > 100 * rem)

\* k further digits of the root; each step moves the exponent by one
RECURSIVE SqrtDigits(_, _, _, _)
SqrtDigits(root, rem, e, k) ==
  Bind2(root, rem, LAMBDA rt, rm :
    IF k = 0 THEN Norm(1, IF rm > rt THEN rt + 1 ELSE rt, e)
    ELSE Bind(SqrtDigit(rt, rm), LAMBDA d :
           SqrtDigits(10 * rt + d, 100 * rm - (20 * rt + d) * d,
                      e - 1, k - 1)))

MathSqrt(a) ==
  Bind(a, LAMBDA v :
    IF v = NaN \/ v[1] < 0 THEN NaN
    ELSE IF v = PInf \/ v = Zero THEN v
    ELSE Bind2(IF v[2] % 2 = 0 THEN v[1] ELSE 10 * v[1],
               IF v[2] % 2 = 0 THEN v[2] ELSE v[2] - 1, LAMBDA m, e :
         Bind(ISqrt(m, 0, 46340), LAMBDA whole :
           SqrtDigits(whole, m - whole * whole, e \div 2, 3))))

\* atan(z) for 0 <= z <= 1: range reduction at tan(PI/8) and the
\* alternating series to z^11
AtanSeries(z) ==
  Bind(z, LAMBDA zv :
  Bind(Mul(zv, zv), LAMBDA z2 :
  Bind(Neg(Div(One, Num(11))), LAMBDA p5 :
  Bind(Add(Mul(p5, z2), Div(One, Num(9))), LAMBDA p4 :
  Bind(Sub(Mul(p4, z2), Div(One, Num(7))), LAMBDA p3 :
  Bind(Add(Mul(p3, z2), Div(One, Num(5))), LAMBDA p2 :
  Bind(Sub(Mul(p2, z2), Div(One, Num(3))), LAMBDA p1 :
  Bind(Add(Mul(p1, z2), One), LAMBDA p0 : Mul(zv, p0)))))))))

\* tan(t/2) from z = tan(t), for z >= 0
HalfAngle(z) == Bind(z, LAMBDA zv : Div(zv, Add(One, MathSqrt(Add(One, Mul(zv, zv))))))

AtanUnit(z) ==
  Bind(z, LAMBDA zv :
  Bind(Lt(zv, Dec(2, 1)), LAMBDA small :
  Bind(AtanSeries(IF small THEN zv ELSE HalfAngle(HalfAngle(zv))), LAMBDA t :
    IF small THEN t ELSE Mul(Num(4), t))))

\* the angle of (ax, ay) for ax, ay >= 0 that are not NaN: in 0 .. PI/2
FirstQuadrant(ay, ax) ==
  IF ay = Zero THEN Zero
  ELSE IF ax = Zero THEN HalfPI
  ELSE IF IsInf(ay) THEN (IF IsInf(ax) THEN QuarterPI ELSE HalfPI)
  ELSE IF IsInf(ax) THEN Zero
  ELSE Bind(Cmp(ay, ax) <= 0, LAMBDA flat :
       Bind(AtanUnit(Div(IF flat THEN ay ELSE ax, IF flat THEN ax ELSE ay)),
            LAMBDA t : IF flat THEN t ELSE Sub(HalfPI, t)))

\* Math.atan2(y, x)
MathAtan2(y, x) ==
  Bind2(y, x, LAMBDA yv, xv :
    IF yv = NaN \/ xv = NaN THEN NaN
    ELSE Bind(FirstQuadrant(<< AbsI(yv[1]), yv[2] >>, << AbsI(xv[1]), xv[2] >>),
              LAMBDA first :
         Bind(IF xv[1] < 0 THEN Sub(PI, first) ELSE first, LAMBDA upper :
           IF yv[1] < 0 THEN Neg(upper) ELSE upper)))

\* Math.round(a) as an integer, for a finite a
MathRound(a) == Floor(Add(a, Dec(5, 1)))

\* ------------------------------------------------------------------------
\* Vision provider selection (config/vision-providers.ts and
\* actions/process-image-with-selection.ts).  Strings are strings; an unset
\* environment variable and a missing apiKey are "", a missing argument is
\* Undefined.  An analysis result is the record the provider functions
\* return, reduced to success, analysisType, provider and error.
\* ------------------------------------------------------------------------
VARIABLES
  env,               \* process.env, fixed while the server runs
  providerStatus,    \* which analyses each provider's backend answers
  selectedProvider,  \* the selection held by VisionProviderContext
  served,            \* the most recent analysis request: its arguments, the
                     \* provider calls it made in order, and what it returned
  localStorage,      \* the item 'vision-provider-preference' of the browser
  now,               \* Date.now() of the server, in ms
  analysisCache,     \* the Map of actions/process-image.ts: key -> entry
  moondreamLocalCache,  \* the Map of services/moondream-local.ts
  calls              \* the calls of processImageWithOllama and
                     \* processImageWithMoondreamLocal made so far, each with
                     \* its arguments, its position and what it did


visionVars == << env, providerStatus, selectedProvider, served, localStorage,
                 now, analysisCache, moondreamLocalCache, calls >>

\* localStorage.getItem returns null for a missing item: falsy, like ""
NoItem == ""

Undefined == "undefined"

\* null, and a value that is not null
Null == << >>
Some(v) == << v >>

Providers == {"ollama", "moondream_local", "moondream"}

OrElse(a, b) == IF a # "" THEN a ELSE b

\* getVisionConfig()
getVisionConfig ==
  [provider |-> OrElse(env.VISION_PROVIDER, "moondream_local"),
   enableFallback |-> env.ENABLE_FALLBACK # "false",
   ollama |-> [baseUrl |-> OrElse(env.OLLAMA_BASE_URL, "http://localhost:11434")],
   moondream |-> [apiKey |-> OrElse(env.MOONDREAM_API_KEY, "")],
   moondreamLocal |->
     [baseUrl |-> OrElse(env.MOONDREAM_LOCAL_URL, "http://localhost:2020/v1")]]

\* isProviderAvailable(provider, config)
isProviderAvailable(provider, config) ==
  CASE provider = "ollama" -> config.ollama.baseUrl # ""
    [] provider = "moondream" -> config.moondream.apiKey # ""
    [] provider = "moondream_local" -> config.moondreamLocal.baseUrl # ""
    [] provider = "auto" ->
         \/ config.ollama.baseUrl # ""
         \/ config.moondream.apiKey # ""
         \/ config.moondreamLocal.baseUrl # ""
    [] OTHER -> FALSE

\* checkProviderAvailability(provider, config)
checkProviderAvailability(provider, config) ==
  CASE provider = "ollama" -> config.ollama.baseUrl # ""
    [] provider = "moondream" -> config.moondream.apiKey # ""
    [] provider = "moondream_local" -> config.moondreamLocal.baseUrl # ""
    [] provider = "auto" -> TRUE
    [] OTHER -> FALSE

fallbackOrder == << "ollama", "moondream_local", "moondream" >>

\* fallbackOrder.filter(p => p !== provider && isProviderAvailable(p, config))
configFallbacks(provider, config) ==
  SelectSeq(fallbackOrder,
            LAMBDA p : p # provider /\ isProviderAvailable(p, config))

\* getBestProvider(config) throws
getBestProviderThrows(config) ==
  IF config.provider = "auto"
    THEN \A p \in Providers : ~ isProviderAvailable(p, config)
  ELSE /\ ~ isProviderAvailable(config.provider, config)
       /\ (config.enableFallback => configFallbacks(config.provider, config) = << >>)

\* getBestProvider(config), when it returns
getBestProvider(config) ==
  IF config.provider = "auto"
    THEN IF isProviderAvailable("ollama", config) THEN "ollama"
         ELSE IF isProviderAvailable("moondream_local", config)
           THEN "moondream_local"
         ELSE "moondream"
  ELSE IF ~ isProviderAvailable(config.provider, config)
    THEN Head(configFallbacks(config.provider, config))
  ELSE config.provider

Result(success, analysisType, provider, error) ==
  [success |-> success, analysisType |-> analysisType, provider |-> provider,
   error |-> error]

\* the backend of a provider answers the analysis
Answers(provider, analysisType) ==
  \/ providerStatus[provider] = "up"
  \/ providerStatus[provider] = "partial" /\ analysisType = "emotion"

\* processImageWithOllama(imageData, analysisType): every error is caught
\* and returned as a failure
processImageWithOllama(analysisType) ==
  IF Answers("ollama", analysisType)
    THEN Result(TRUE, analysisType, "ollama", "")
  ELSE Result(FALSE, analysisType, "ollama", "Failed to process image")

\* processImageWithMoondreamLocal(imageData, analysisType): likewise
processImageWithMoondreamLocal(analysisType) ==
  IF Answers("moondream_local", analysisType)
    THEN Result(TRUE, analysisType, "moondream_local", "")
  ELSE Result(FALSE, analysisType, "moondream_local", "Failed to process image")

\* processImageWithMoondream(imageData, analysisType), the cloud service
processImageWithMoondream(analysisType) ==
  IF Answers("moondream", analysisType)
    THEN Result(TRUE, analysisType, "moondream", "")
  ELSE Result(FALSE, analysisType, "moondream", "Failed to process image")

\* the if / else-if chain that calls the provider's function
processImageWith(provider, analysisType) ==
  IF provider = "ollama" THEN processImageWithOllama(analysisType)
  ELSE IF provider = "moondream" THEN processImageWithMoondream(analysisType)
  ELSE processImageWithMoondreamLocal(analysisType)

\* one call of a provider, for some analysis types
Called(provider, analysisTypes) ==
  [provider |-> provider, analysisTypes |-> analysisTypes]

\* the user's selection counts: userSelectedProvider && userSelectedProvider !== 'auto'
userSelected(userSelectedProvider) ==
  userSelectedProvider # Undefined /\ userSelectedProvider # "auto"

\* the fallback is attempted whatever was passed
fallbackAllowedAlways(userSelectedProvider, config) ==
  config.enableFallback

\* config.enableFallback && !userSelectedProvider
fallbackAllowed(userSelectedProvider, config) ==
  config.enableFallback /\ userSelectedProvider = Undefined

\* fallbackOrder.filter(p => p !== primaryProvider &&
\*   checkProviderAvailability(p, config))
availableFallbacks(primaryProvider, config) ==
  SelectSeq(fallbackOrder,
            LAMBDA p : p # primaryProvider /\ checkProviderAvailability(p, config))

\* the loop over availableFallbacks of processImageWithUserSelection: the
\* providers are called in order up to the first success
fallbackLoop(fallbacks, analysisType, result) ==
  LET hits == {i \in 1..Len(fallbacks) :
                 processImageWith(fallbacks[i], analysisType).success}
      last == IF hits = {} THEN Len(fallbacks)
              ELSE CHOOSE i \in hits : \A j \in hits : i <= j
  IN  [called |-> [i \in 1..last |-> Called(fallbacks[i], << analysisType >>)],
       result |-> IF hits = {} THEN result
                  ELSE processImageWith(fallbacks[last], analysisType)]

\* processImageWithUserSelection(imageData, analysisType, userSelectedProvider)
processImageWithUserSelection(analysisType, userSelectedProvider) ==
  LET config == getVisionConfig
  IN  IF ~ userSelected(userSelectedProvider) /\ getBestProviderThrows(config)
        THEN [called |-> << >>,
              result |-> Result(FALSE, analysisType, Undefined,
                                "No vision analysis providers are available")]
      ELSE
        LET primaryProvider ==
              IF userSelected(userSelectedProvider) THEN userSelectedProvider
              ELSE getBestProvider(config)
            result == processImageWith(primaryProvider, analysisType)
            fallback == fallbackLoop(availableFallbacks(primaryProvider, config),
                                     analysisType, result)
        IN  IF ~ checkProviderAvailability(primaryProvider, config)
              THEN [called |-> << >>,
                    result |-> Result(FALSE, analysisType, primaryProvider,
                                      "Selected provider is not available")]
            ELSE IF ~ result.success
                    /\ fallbackAllowed(userSelectedProvider, config)
              THEN [called |-> << Called(primaryProvider, << analysisType >>) >>
                                 \o fallback.called,
                    result |-> fallback.result]
            ELSE [called |-> << Called(primaryProvider, << analysisType >>) >>,
                  result |-> result]

\* the indices of the results that are failures, ascending
RECURSIVE failedIndices(_, _)
failedIndices(results, n) ==
  IF n = 0 THEN << >>
  ELSE IF results[n].success THEN failedIndices(results, n - 1)
  ELSE Append(failedIndices(results, n - 1), n)

\* the loop over availableFallbacks of
\* processImageWithUserSelectionMultipleTypes: each provider is called for
\* the types that still failed, and its successes replace the failures
RECURSIVE fallbackLoopMultipleTypes(_, _, _)
fallbackLoopMultipleTypes(fallbacks, analysisTypes, results) ==
  LET stillFailedIndices == failedIndices(results, Len(results))
      failedTypes == [k \in 1..Len(stillFailedIndices) |->
                        analysisTypes[stillFailedIndices[k]]]
      fallbackResults == [k \in 1..Len(failedTypes) |->
                            processImageWith(Head(fallbacks), failedTypes[k])]
      replaced == [i \in 1..Len(results) |->
                     IF \E k \in 1..Len(stillFailedIndices) :
                          stillFailedIndices[k] = i /\ fallbackResults[k].success
                       THEN processImageWith(Head(fallbacks), analysisTypes[i])
                     ELSE results[i]]
      rest == fallbackLoopMultipleTypes(Tail(fallbacks), analysisTypes, replaced)
  IN  IF fallbacks = << >> \/ stillFailedIndices = << >>
        THEN [called |-> << >>, results |-> results]
      ELSE [called |-> << Called(Head(fallbacks), failedTypes) >> \o rest.called,
            results |-> rest.results]

\* processImageWithUserSelectionMultipleTypes(imageData, analysisTypes,
\* userSelectedProvider), without a custom prompt; results in the order of
\* analysisTypes
processImageWithUserSelectionMultipleTypes(analysisTypes, userSelectedProvider) ==
  LET config == getVisionConfig
      n == Len(analysisTypes)
  IN  IF ~ userSelected(userSelectedProvider) /\ getBestProviderThrows(config)
        THEN [called |-> << >>,
              results |-> [i \in 1..n |->
                             Result(FALSE, analysisTypes[i], Undefined,
                                    "No vision analysis providers are available")]]
      ELSE
        LET primaryProvider ==
              IF userSelected(userSelectedProvider) THEN userSelectedProvider
              ELSE getBestProvider(config)
            results == [i \in 1..n |->
                          processImageWith(primaryProvider, analysisTypes[i])]
            fallback == fallbackLoopMultipleTypes(
                          availableFallbacks(primaryProvider, config),
                          analysisTypes, results)
        IN  IF ~ checkProviderAvailability(primaryProvider, config)
              THEN [called |-> << >>,
                    results |-> [i \in 1..n |->
                                   Result(FALSE, analysisTypes[i], primaryProvider,
                                          "Selected provider is not available")]]
            ELSE IF fallbackAllowed(userSelectedProvider, config)
              THEN [called |-> << Called(primaryProvider, analysisTypes) >>
                                 \o fallback.called,
                    results |-> fallback.results]
            ELSE [called |-> << Called(primaryProvider, analysisTypes) >>,
                  results |-> results]

\* processImage with the fallbacks tried in the order ollama, moondream,
\* moondream_local
processImageCloudFirst(analysisType) ==
  LET config == getVisionConfig
  IN  IF getBestProviderThrows(config)
        THEN [called |-> << >>,
              result |-> Result(FALSE, analysisType, Undefined,
                                "No vision analysis providers are available")]
      ELSE
        LET primaryProvider == getBestProvider(config)
            result == processImageWith(primaryProvider, analysisType)
            order == << "ollama", "moondream", "moondream_local" >>
            fallbacks ==
              SelectSeq(order, LAMBDA p :
                /\ p # primaryProvider
                /\ \/ p = "ollama" /\ config.ollama.baseUrl # ""
                   \/ p = "moondream" /\ config.moondream.apiKey # ""
                   \/ p = "moondream_local" /\ config.moondreamLocal.baseUrl # "")
            fallback == fallbackLoop(fallbacks, analysisType, result)
        IN  IF ~ result.success /\ config.enableFallback
              THEN [called |-> << Called(primaryProvider, << analysisType >>) >>
                                 \o fallback.called,
                    result |-> fallback.result]
            ELSE [called |-> << Called(primaryProvider, << analysisType >>) >>,
                  result |-> result]

\* processImage(imageData, analysisType): the providers it calls, in order,
\* and the result it returns
processImage(analysisType) ==
  LET config == getVisionConfig
  IN  IF getBestProviderThrows(config)
        THEN [called |-> << >>,
              result |-> Result(FALSE, analysisType, Undefined,
                                "No vision analysis providers are available")]
      ELSE
        LET primaryProvider == getBestProvider(config)
            result == processImageWith(primaryProvider, analysisType)
            order == << "ollama", "moondream_local", "moondream" >>
            fallbacks ==
              SelectSeq(order, LAMBDA p :
                /\ p # primaryProvider
                /\ \/ p = "ollama" /\ config.ollama.baseUrl # ""
                   \/ p = "moondream" /\ config.moondream.apiKey # ""
                   \/ p = "moondream_local" /\ config.moondreamLocal.baseUrl # "")
            fallback == fallbackLoop(fallbacks, analysisType, result)
        IN  IF ~ result.success /\ config.enableFallback
              THEN [called |-> << Called(primaryProvider, << analysisType >>) >>
                                 \o fallback.called,
                    result |-> fallback.result]
            ELSE [called |-> << Called(primaryProvider, << analysisType >>) >>,
                  result |-> result]

\* what a request leaves behind
Served(op, userSelectedProvider, analysisTypes, called, results) ==
  [op |-> op, userSelectedProvider |-> userSelectedProvider,
   analysisTypes |-> analysisTypes, called |-> called, results |-> results]

NothingServed == Served("none", Undefined, << >>, << >>, << >>)

\* VisionProviderProvider mounted with the item savedProvider in
\* localStorage: useState('auto'), then the effect that loads the saved
\* preference, then the effect that saves the selection
mount(savedProvider) ==
  Bind(IF savedProvider # NoItem
          /\ savedProvider \in {"auto", "ollama", "moondream_local", "moondream"}
         THEN savedProvider ELSE "moondream_local",
       LAMBDA selected :
    [selectedProvider |-> selected,
     localStorage |-> IF selected # "auto" THEN selected ELSE savedProvider])

\* ------------------------------------------------------------------------
\* processImageWithOllama and processImageWithMoondreamLocal step by step:
\* the cache lookup, the fetch attempts of retryWithBackoff and the waits
\* between them.  A string of image data is the sequence of its characters.
\* ------------------------------------------------------------------------
CACHE_DURATION == 3000

\* generateImageHash(imageData): imageData.slice(0, 100)
generateImageHash(imageData) ==
  SubSeq(imageData, 1, IF Len(imageData) < 100 THEN Len(imageData) ELSE 100)

\* `ollama-${imageHash}-${analysisType}-${customPrompt || ''}` and
\* `moondream-local-${imageHash}-...`, as the tuple of the parts (data URLs
\* and analysis types contain no '-')
cacheKey(provider, imageData, analysisType, customPrompt) ==
  << IF provider = "ollama" THEN "ollama" ELSE "moondream-local",
     generateImageHash(imageData), analysisType,
     IF customPrompt = Undefined THEN "" ELSE customPrompt >>

\* the Map each of the two functions uses
cacheOf(provider) ==
  IF provider = "ollama" THEN analysisCache ELSE moondreamLocalCache

\* the prompt sent: customPrompt for a 'custom' analysis, else the
\* predefined prompt of the analysis type
promptFor(analysisType, customPrompt) ==
  IF analysisType = "custom" /\ customPrompt # Undefined /\ customPrompt # ""
    THEN customPrompt ELSE analysisType

\* the record the function passed to retryWithBackoff returns: the answer
\* of the backend is about the image and the prompt sent to it
successResult(c) ==
  [success |-> TRUE,
   analysis |-> [image |-> c.imageData,
                 prompt |-> promptFor(c.analysisType, c.customPrompt)],
   timestamp |-> now, analysisType |-> c.analysisType,
   provider |-> c.provider]

\* the record the catch block returns
failureResult(c) ==
  [success |-> FALSE, error |-> "Failed to process image",
   timestamp |-> now, analysisType |-> c.analysisType,
   provider |-> c.provider]

\* the call of processImageWithOllama (provider "ollama") or
\* processImageWithMoondreamLocal up to its first await: a fresh cache entry
\* is returned, otherwise the first fetch is under way
startCall(provider, imageData, analysisType, customPrompt) ==
  LET key == cacheKey(provider, imageData, analysisType, customPrompt)
      cache == cacheOf(provider)
      hit == key \in DOMAIN cache
               /\ now - cache[key].timestamp < CACHE_DURATION
      c == [provider |-> provider, imageData |-> imageData,
            analysisType |-> analysisType, customPrompt |-> customPrompt,
            startedAt |-> now, retries |-> 3, backoff |-> 1000,
            responses |-> << >>, waits |-> << >>, wakeAt |-> 0,
            storedAt |-> Null]
  IN  IF hit
        THEN c @@ [pc |-> "done", attempts |-> 0, fromCache |-> TRUE,
                   result |-> Some(cache[key].result)]
      ELSE c @@ [pc |-> "fetching", attempts |-> 1, fromCache |-> FALSE,
                 result |-> Null]

\* retryWithBackoff with a delay that is not doubled
retryWithBackoffConstant(c, ok) ==
  IF ok THEN [c EXCEPT !.pc = "returned"]
  ELSE IF c.retries = 0 THEN [c EXCEPT !.pc = "threw"]
  ELSE [c EXCEPT !.pc = "waiting", !.wakeAt = now + c.backoff,
                 !.waits = Append(@, c.backoff),
                 !.retries = @ - 1]

\* retryWithBackoff(fn, retries, backoff) once fn() has settled: it returns
\* what fn returned, rethrows when no retry is left, or sets the timer after
\* which it calls itself with retries - 1 and backoff * 2
retryWithBackoff(c, ok) ==
  IF ok THEN [c EXCEPT !.pc = "returned"]
  ELSE IF c.retries = 0 THEN [c EXCEPT !.pc = "threw"]
  ELSE [c EXCEPT !.pc = "waiting", !.wakeAt = now + c.backoff,
                 !.waits = Append(@, c.backoff),
                 !.retries = @ - 1, !.backoff = @ * 2]

\* the rest of the provider function once retryWithBackoff has returned or
\* thrown: the success is cached and returned, the error is caught and a
\* success:false record returned
finishCall(c) ==
  IF c.pc = "returned"
    THEN [c EXCEPT !.pc = "done", !.result = Some(successResult(c)),
                   !.storedAt = Some(now)]
  ELSE IF c.pc = "threw"
    THEN [c EXCEPT !.pc = "done", !.result = Some(failureResult(c))]
  ELSE c

\* cache.set(cacheKey, {result, timestamp: Date.now()}) when c stored
cacheAfter(cache, c) ==
  IF c.pc = "done" /\ c.storedAt = Some(now)
    THEN (cacheKey(c.provider, c.imageData, c.analysisType,
                   c.customPrompt)
            :> [result |-> c.result[1], timestamp |-> now]) @@ cache
  ELSE cache

\* the page as a first visit leaves it: no provider function called yet
InitCalls ==
  /\ now = 0
  /\ analysisCache = << >>
  /\ moondreamLocalCache = << >>
  /\ calls = << >>

\* no environment variable set, every backend answering, the selection as
\* VisionProviderProvider leaves it on a first visit
InitVision ==
  /\ env = [VISION_PROVIDER |-> "", ENABLE_FALLBACK |-> "",
            OLLAMA_BASE_URL |-> "", MOONDREAM_LOCAL_URL |-> "",
            MOONDREAM_API_KEY |-> ""]
  /\ providerStatus = [p \in Providers |-> "up"]
  /\ selectedProvider = mount(NoItem).selectedProvider
  /\ localStorage = mount(NoItem).localStorage
  /\ served = NothingServed
  /\ InitCalls

\* ------------------------------------------------------------------------
\* class MotionTracker
\* ------------------------------------------------------------------------
VARIABLES
  kalmanFilter,    \* this.kalmanFilter
  lastTimestamp,   \* this.lastTimestamp: << >> is null, << t >> a value
  lastPosition,    \* this.lastPosition:  << >> is null, << p >> a value
  lastVelocity,    \* this.lastVelocity:  << >> is null, << v >> a value
  motionHistory,   \* this.motionHistory
  call,            \* the most recent call on the tracker: operation,
                   \* arguments, the local dt of track(), and its result
  inputs,          \* the (position, timestamp) pairs passed to track() since
                   \* construction or the last reset()
  returned,        \* the samples track() returned since then
  resets,          \* number of reset() calls so far
  estimator,       \* a KalmanFilter instance used on its own
  estimatorLog,    \* the calls made on it since its construction, with
                   \* their arguments and what they returned
  twin             \* a second MotionTracker fed alongside the first: the
                   \* record of its fields, the frames passed to it and the
                   \* samples it returned

vars == << kalmanFilter, lastTimestamp, lastPosition, lastVelocity,
           motionHistory, call, inputs, returned, resets,
           estimator, estimatorLog, twin, twin,
           env, providerStatus, selectedProvider, served, localStorage,
           now, analysisCache, moondreamLocalCache, calls >>

trackerVars == << kalmanFilter, lastTimestamp, lastPosition, lastVelocity,
                  motionHistory >>

historySize == 10

Point(x, y) == [x |-> x, y |-> y]

MotionData(position, velocity, acceleration, timestamp) ==
  [position |-> position, velocity |-> velocity,
   acceleration |-> acceleration, timestamp |-> timestamp]

\* a first measurement that is also fed to the filter
trackInitialUpdating(position, timestamp) ==
  \E initialMotion \in
       {MotionData(position, Point(Zero, Zero), Point(Zero, Zero), timestamp)} :
    /\ lastTimestamp' = Some(timestamp)
    /\ lastPosition' = Some(position)
    /\ lastVelocity' = Some(Point(Zero, Zero))
    /\ motionHistory' = Append(motionHistory, initialMotion)
    /\ kalmanFilter' = update(kalmanFilter, position)
    /\ call' = [op |-> "track", position |-> position,
                timestamp |-> timestamp, dt |-> Null,
                result |-> initialMotion, threw |-> FALSE]
    /\ returned' = Append(returned, initialMotion)

\* track(), first measurement (lastTimestamp === null)
trackInitial(position, timestamp) ==
  \E initialMotion \in
       {MotionData(position, Point(Zero, Zero), Point(Zero, Zero), timestamp)} :
    /\ lastTimestamp' = Some(timestamp)
    /\ lastPosition' = Some(position)
    /\ lastVelocity' = Some(Point(Zero, Zero))
    /\ motionHistory' = Append(motionHistory, initialMotion)
    /\ kalmanFilter' = kalmanFilter
    /\ call' = [op |-> "track", position |-> position,
                timestamp |-> timestamp, dt |-> Null,
                result |-> initialMotion, threw |-> FALSE]
    /\ returned' = Append(returned, initialMotion)

\* pop() instead of shift(): the newest sample is dropped
pushHistoryPop(history, motionData) ==
  Bind(Append(history, motionData), LAMBDA pushed :
    IF Len(pushed) > historySize THEN SubSeq(pushed, 1, historySize)
    ELSE pushed)

\* track(), "Update history": push, then shift when over capacity
pushHistory(history, motionData) ==
  Bind(Append(history, motionData), LAMBDA pushed :
    IF Len(pushed) > historySize THEN Tail(pushed) ELSE pushed)

\* track(), every later measurement, when a matrixMultiply call throws: the
\* exception leaves track() with the estimator fields assigned so far
trackNextThrowing(position, timestamp) ==
  \E dt \in {Div(Num(timestamp - lastTimestamp[1]), Num(1000))} :
  \E predicted \in {predict(kalmanFilter, dt)} :
    /\ kalmanFilter' =
         IF anyThrows(predictCallsBeforeState) THEN kalmanFilter
         ELSE IF anyThrows(predictCallsAfterState)
           THEN [kalmanFilter EXCEPT !.state = predicted.state]
         ELSE IF anyThrows(updateCallsBeforeState) THEN predicted
         ELSE [predicted EXCEPT !.state = update(predicted, position).state]
    /\ UNCHANGED << motionHistory, lastTimestamp, lastPosition, lastVelocity,
                    returned >>
    /\ call' = [op |-> "track", position |-> position,
                timestamp |-> timestamp, dt |-> Some(dt),
                result |-> Null, threw |-> TRUE]

\* the filtered velocity kept as the last velocity
trackNextFiltered(position, timestamp) ==
  \E dt \in {Div(Num(timestamp - lastTimestamp[1]), Num(1000))} :
  \E predicted \in {predict(kalmanFilter, dt)} :
  \E prediction \in {predictResult(predicted)} :
  \E velocity \in {Point(Div(Sub(position.x, lastPosition[1].x), dt),
                         Div(Sub(position.y, lastPosition[1].y), dt))} :
  \E acceleration \in {Point(Div(Sub(velocity.x, lastVelocity[1].x), dt),
                             Div(Sub(velocity.y, lastVelocity[1].y), dt))} :
  \E motionData \in {MotionData(Point(prediction.x, prediction.y),
                                Point(prediction.dx, prediction.dy),
                                acceleration, timestamp)} :
    /\ kalmanFilter' = update(predicted, position)
    /\ motionHistory' = pushHistory(motionHistory, motionData)
    /\ lastTimestamp' = Some(timestamp)
    /\ lastPosition' = Some(position)
    /\ lastVelocity' = Some(motionData.velocity)
    /\ call' = [op |-> "track", position |-> position,
                timestamp |-> timestamp, dt |-> Some(dt),
                result |-> motionData, threw |-> FALSE]
    /\ returned' = Append(returned, motionData)

\* track(), every later measurement
trackNext(position, timestamp) ==
  \E dt \in {Div(Num(timestamp - lastTimestamp[1]), Num(1000))} :
  \E predicted \in {predict(kalmanFilter, dt)} :
  \E prediction \in {predictResult(predicted)} :
  \E velocity \in {Point(Div(Sub(position.x, lastPosition[1].x), dt),
                         Div(Sub(position.y, lastPosition[1].y), dt))} :
  \E acceleration \in {Point(Div(Sub(velocity.x, lastVelocity[1].x), dt),
                             Div(Sub(velocity.y, lastVelocity[1].y), dt))} :
  \E motionData \in {MotionData(Point(prediction.x, prediction.y),
                                Point(prediction.dx, prediction.dy),
                                acceleration, timestamp)} :
    /\ kalmanFilter' = update(predicted, position)
    /\ motionHistory' = pushHistory(motionHistory, motionData)
    /\ lastTimestamp' = Some(timestamp)
    /\ lastPosition' = Some(position)
    /\ lastVelocity' = Some(velocity)
    /\ call' = [op |-> "track", position |-> position,
                timestamp |-> timestamp, dt |-> Some(dt),
                result |-> motionData, threw |-> FALSE]
    /\ returned' = Append(returned, motionData)

\* track(position, timestamp): the fields of the tracker after the call
trackCall(position, timestamp) ==
  /\ IF lastTimestamp = Null
       THEN trackInitial(position, timestamp)
       ELSE IF anyThrows(predictCallsBeforeState \cup predictCallsAfterState
                           \cup updateCallsBeforeState
                           \cup updateCallsAfterState)
         THEN trackNextThrowing(position, timestamp)
       ELSE trackNext(position, timestamp)
  /\ inputs' = Append(inputs, [position |-> position, timestamp |-> timestamp])

track(position, timestamp) ==
  /\ trackCall(position, timestamp)
  /\ UNCHANGED << resets, estimator, estimatorLog, twin, visionVars >>

\* new MotionTracker() as a record, with no frame passed yet
NewMotionTracker ==
  [kalmanFilter |-> NewKalmanFilter, lastTimestamp |-> Null,
   lastPosition |-> Null, lastVelocity |-> Null, motionHistory |-> << >>,
   inputs |-> << >>, returned |-> << >>]

\* track(position, timestamp) on the tracker m: m after the call
\* (matrixMultiply does not throw on the operands predict() and update()
\* pass it)
trackOn(m, position, timestamp) ==
  IF m.lastTimestamp = Null
    THEN Bind(MotionData(position, Point(Zero, Zero), Point(Zero, Zero),
                         timestamp), LAMBDA initialMotion :
           [m EXCEPT !.lastTimestamp = Some(timestamp),
                     !.lastPosition = Some(position),
                     !.lastVelocity = Some(Point(Zero, Zero)),
                     !.motionHistory = Append(m.motionHistory, initialMotion),
                     !.inputs = Append(m.inputs, [position |-> position,
                                                  timestamp |-> timestamp]),
                     !.returned = Append(m.returned, initialMotion)])
  ELSE
    Bind(Div(Num(timestamp - m.lastTimestamp[1]), Num(1000)), LAMBDA dt :
    Bind(predict(m.kalmanFilter, dt), LAMBDA predicted :
    Bind(predictResult(predicted), LAMBDA prediction :
    Bind(Point(Div(Sub(position.x, m.lastPosition[1].x), dt),
               Div(Sub(position.y, m.lastPosition[1].y), dt)),
         LAMBDA velocity :
    Bind(Point(Div(Sub(velocity.x, m.lastVelocity[1].x), dt),
               Div(Sub(velocity.y, m.lastVelocity[1].y), dt)),
         LAMBDA acceleration :
    Bind(MotionData(Point(prediction.x, prediction.y),
                    Point(prediction.dx, prediction.dy),
                    acceleration, timestamp), LAMBDA motionData :
      [m EXCEPT !.kalmanFilter = update(predicted, position),
                !.motionHistory = pushHistory(m.motionHistory, motionData),
                !.lastTimestamp = Some(timestamp),
                !.lastPosition = Some(position),
                !.lastVelocity = Some(velocity),
                !.inputs = Append(m.inputs, [position |-> position,
                                             timestamp |-> timestamp]),
                !.returned = Append(m.returned, motionData)]))))))

getDirection(angle) ==
  Bind(angle, LAMBDA a :
    LET directions == << "east", "northeast", "north", "northwest",
                         "west", "southwest", "south", "southeast" >>
    IN  IF a = NaN THEN "undefined"
        ELSE directions[
               (MathRound(Div(Mul(Add(a, PI), Num(4)), PI)) % 8) + 1])

\* the label with the highest count; among equals the one counted last
findDominantDirectionLast(directions) ==
  Bind(directions, LAMBDA ds :
    LET count(d) == Cardinality({i \in 1..Len(ds) : ds[i] = d})
        first(d) == CHOOSE i \in 1..Len(ds) :
                      /\ ds[i] = d
                      /\ \A j \in 1..(i - 1) : ds[j] # d
        best == CHOOSE i \in 1..Len(ds) :
                  /\ first(ds[i]) = i
                  /\ \A j \in 1..Len(ds) :
                       \/ count(ds[j]) < count(ds[i])
                       \/ /\ count(ds[j]) = count(ds[i])
                          /\ first(ds[j]) <= i
    IN  ds[best])

\* the label with the highest count; among equals the one counted first
findDominantDirection(directions) ==
  Bind(directions, LAMBDA ds :
    LET count(d) == Cardinality({i \in 1..Len(ds) : ds[i] = d})
        first(d) == CHOOSE i \in 1..Len(ds) :
                      /\ ds[i] = d
                      /\ \A j \in 1..(i - 1) : ds[j] # d
        best == CHOOSE i \in 1..Len(ds) :
                  /\ first(ds[i]) = i
                  /\ \A j \in 1..Len(ds) :
                       \/ count(ds[j]) < count(ds[i])
                       \/ /\ count(ds[j]) = count(ds[i])
                          /\ first(ds[j]) >= i
    IN  ds[best])

\* a direction change counted only when both components change sign
detectOscillationBoth(velocities) ==
  Bind(velocities, LAMBDA vs :
    LET changed(i) ==
          /\ MathSign(vs[i].x) # MathSign(vs[i - 1].x)
          /\ MathSign(vs[i].y) # MathSign(vs[i - 1].y)
        directionChanges == Cardinality({i \in 2..Len(vs) : changed(i)})
    IN  directionChanges >= 2)

detectOscillation(velocities) ==
  Bind(velocities, LAMBDA vs :
    LET changed(i) ==
          \/ MathSign(vs[i].x) # MathSign(vs[i - 1].x)
          \/ MathSign(vs[i].y) # MathSign(vs[i - 1].y)
          \/ vs[i].x = NaN
          \/ vs[i].y = NaN
        directionChanges == Cardinality({i \in 2..Len(vs) : changed(i)})
    IN  directionChanges >= 2)

detectCircularMotion(velocities) ==
  Bind(velocities, LAMBDA vs :
    LET angle == [i \in 2..Len(vs) |->
                    MathAtan2(Sub(vs[i].y, vs[i - 1].y),
                              Sub(vs[i].x, vs[i - 1].x))]
        angleSum == SumTo([i \in 1..(Len(vs) - 1) |-> angle[i + 1]],
                          Len(vs) - 1)
    IN  Gt(MathAbs(angleSum), Mul(PI, Dec(15, 1))))

\* the oscillation test tried before the constant-velocity test
detectMotionPatternOscillatingFirst(history) ==
  Bind(history, LAMBDA h :
    IF Len(h) < 3 THEN "insufficient data"
    ELSE LET velocities == Tab([i \in 1..Len(h) |-> h[i].velocity], Len(h))
             accelerations ==
               Tab([i \in 1..Len(h) |-> h[i].acceleration], Len(h))
             isConstantVelocity ==
               \A i \in 1..Len(h) :
                 /\ Lt(MathAbs(accelerations[i].x), Dec(1, 1))
                 /\ Lt(MathAbs(accelerations[i].y), Dec(1, 1))
         IN  IF detectOscillation(velocities) THEN "oscillating"
             ELSE IF isConstantVelocity THEN "linear"
             ELSE IF detectCircularMotion(velocities) THEN "circular"
             ELSE "complex")

detectMotionPattern(history) ==
  Bind(history, LAMBDA h :
    IF Len(h) < 3 THEN "insufficient data"
    ELSE LET velocities == Tab([i \in 1..Len(h) |-> h[i].velocity], Len(h))
             accelerations ==
               Tab([i \in 1..Len(h) |-> h[i].acceleration], Len(h))
             isConstantVelocity ==
               \A i \in 1..Len(h) :
                 /\ Lt(MathAbs(accelerations[i].x), Dec(1, 1))
                 /\ Lt(MathAbs(accelerations[i].y), Dec(1, 1))
         IN  IF isConstantVelocity THEN "linear"
             ELSE IF detectOscillation(velocities) THEN "oscillating"
             ELSE IF detectCircularMotion(velocities) THEN "circular"
             ELSE "complex")

RECURSIVE MathMax(_, _)

\* the last speed taken for the maximum
MathMaxLast(speeds, n) ==
  IF n = 0 THEN NInf ELSE speeds[n]

\* Math.max(...speeds)
MathMax(speeds, n) ==
  IF n = 0 THEN NInf
  ELSE Bind(MathMax(speeds, n - 1), LAMBDA rest :
         IF rest = NaN \/ speeds[n] = NaN THEN NaN
         ELSE IF Cmp(speeds[n], rest) > 0 THEN speeds[n] ELSE rest)

\* analyzeMotion(), the part after the length guard
analysis(history) ==
  Bind(history, LAMBDA h :
  Bind(Tab([i \in 1..Len(h) |->
              MathSqrt(Add(Mul(h[i].velocity.x, h[i].velocity.x),
                           Mul(h[i].velocity.y, h[i].velocity.y)))],
           Len(h)), LAMBDA speeds :
  Bind(Div(SumTo(speeds, Len(speeds)), Num(Len(speeds))), LAMBDA averageSpeed :
    LET directions == Tab([i \in 1..Len(h) |->
                             getDirection(MathAtan2(h[i].velocity.y,
                                                    h[i].velocity.x))],
                          Len(h))
    IN  [averageSpeed |-> averageSpeed,
         maxSpeed |-> MathMax(speeds, Len(speeds)),
         isMoving |-> Gt(averageSpeed, Dec(5, 1)),
         dominantDirection |-> findDominantDirection(directions),
         motionPattern |-> detectMotionPattern(h)])))

\* the length guard off by one: a single sample is analysed
analyzeMotionResultOne(history) ==
  IF Len(history) < 1
    THEN [averageSpeed |-> Zero, maxSpeed |-> Zero, isMoving |-> FALSE,
          dominantDirection |-> "none", motionPattern |-> "insufficient data"]
  ELSE analysis(history)

\* the value analyzeMotion() returns for a history
analyzeMotionResult(history) ==
  IF Len(history) < 2
    THEN [averageSpeed |-> Zero, maxSpeed |-> Zero, isMoving |-> FALSE,
          dominantDirection |-> "none", motionPattern |-> "insufficient data"]
  ELSE analysis(history)

\* reduce() without an initial value, and [0][0] of the sorted entries,
\* throw a TypeError on an empty array
reduceThrows(array) == Len(array) = 0

\* analyzeMotion() without its length guard
analyzeMotionThrowsUnguarded(history) == reduceThrows(history)

\* analyzeMotion() throws: past the length guard, speeds (one entry per
\* sample) is reduced and the direction counts are indexed
analyzeMotionThrows(history) ==
  IF Len(history) < 2 THEN FALSE ELSE reduceThrows(history)

\* an analysis that consumes the oldest sample of the history
analyzeMotionConsuming ==
  /\ call' = IF analyzeMotionThrows(motionHistory)
               THEN [op |-> "analyzeMotion", result |-> Null, threw |-> TRUE]
               ELSE [op |-> "analyzeMotion",
                     result |-> analyzeMotionResult(motionHistory),
                     threw |-> FALSE]
  /\ motionHistory' = IF motionHistory = << >> THEN << >> ELSE Tail(motionHistory)
  /\ UNCHANGED << kalmanFilter, lastTimestamp, lastPosition, lastVelocity,
                  inputs, returned, resets, estimator, estimatorLog, twin,
                  visionVars >>

analyzeMotion ==
  /\ call' = IF analyzeMotionThrows(motionHistory)
               THEN [op |-> "analyzeMotion", result |-> Null, threw |-> TRUE]
               ELSE [op |-> "analyzeMotion",
                     result |-> analyzeMotionResult(motionHistory),
                     threw |-> FALSE]
  /\ UNCHANGED << trackerVars, inputs, returned, resets, estimator,
                  estimatorLog, twin, visionVars >>

\* a reset that keeps the last position and velocity
resetKeepingLast ==
  /\ kalmanFilter' = NewKalmanFilter
  /\ lastTimestamp' = Null
  /\ lastPosition' = lastPosition
  /\ lastVelocity' = lastVelocity
  /\ motionHistory' = << >>
  /\ call' = [op |-> "reset", dropped |-> Len(motionHistory)]
  /\ inputs' = << >>
  /\ returned' = << >>
  /\ resets' = resets + 1
  /\ UNCHANGED << estimator, estimatorLog, twin, visionVars >>

\* a reset that keeps the filter
resetKeepingFilter ==
  /\ kalmanFilter' = kalmanFilter
  /\ lastTimestamp' = Null
  /\ lastPosition' = Null
  /\ lastVelocity' = Null
  /\ motionHistory' = << >>
  /\ call' = [op |-> "reset", dropped |-> Len(motionHistory)]
  /\ inputs' = << >>
  /\ returned' = << >>
  /\ resets' = resets + 1
  /\ UNCHANGED << estimator, estimatorLog, twin, visionVars >>

reset ==
  /\ kalmanFilter' = NewKalmanFilter
  /\ lastTimestamp' = Null
  /\ lastPosition' = Null
  /\ lastVelocity' = Null
  /\ motionHistory' = << >>
  /\ call' = [op |-> "reset", dropped |-> Len(motionHistory)]
  /\ inputs' = << >>
  /\ returned' = << >>
  /\ resets' = resets + 1
  /\ UNCHANGED << estimator, estimatorLog, twin, visionVars >>

\* ------------------------------------------------------------------------
\* The callers.  A frame source supplies (position, timestamp) pairs; the
\* sources explored are the frame sequences of Scenarios, each given by a
\* first frame and cyclic increments of x, y and of the timestamp.
\* ------------------------------------------------------------------------
MaxCalls == 36     \* track() calls per tracker life
MaxResets == 1     \* reset() calls

\* seq[1] + ... + seq[n]
RECURSIVE SeqSum(_, _)
SeqSum(seq, n) == IF n = 0 THEN 0 ELSE SeqSum(seq, n - 1) + seq[n]

\* the sum of the first n increments of a cyclic sequence of increments
CycSum(seq, n) ==
  (n \div Len(seq)) * SeqSum(seq, Len(seq)) + SeqSum(seq, n % Len(seq))

\* the k-th frame of the source s
FrameAt(s, k) ==
  [x |-> s.x0 + CycSum(s.dx, k - 1), y |-> s.y0 + CycSum(s.dy, k - 1),
   t |-> s.t0 + CycSum(s.dt, k - 1)]

Input(frame) ==
  Bind(frame, LAMBDA f :
    [position |-> Point(Num(f.x), Num(f.y)), timestamp |-> f.t])

Source(x0, y0, t0, dx, dy, dt) ==
  [x0 |-> x0, y0 |-> y0, t0 |-> t0, dx |-> dx, dy |-> dy, dt |-> dt]

\* x = t, y = 0, one frame per second, from x = 0 at time 0
RampSource == Source(0, 0, 0, << 1 >>, << 0 >>, << 1000 >>)

\* x = +10, -10, +10, ..., y constant, one frame per second
AlternatingSources ==
  { Source(10, y0, t0, << 0 - 20, 20 >>, << 0 >>, << 1000 >>) :
      y0 \in {0 - 5, 0, 5}, t0 \in {0, 2000} }

\* a fixed point (the frame centre captureFrame passes) under timestamps
\* that advance regularly, repeat, or run backwards
StillSources ==
  { Source(3, 4, 1000, << 0 >>, << 0 >>, dt) :
      dt \in { << 1000 >>, << 500 >>, << 1000, 0 >>, << 0 >>,
               << 1000, 0 - 500 >>, << 2000, 0, 0 >> } }

\* other motions: steady, diagonal, turning
MovingSources ==
  { Source(0 - 2, 1, 0, << 1 >>, << 1 >>, << 1000 >>),
    Source(5, 5, 500, << 0 - 1 >>, << 0 >>, << 1000 >>),
    Source(0, 0, 0, << 0 >>, << 2 >>, << 500 >>),
    Source(1, 0, 0, << 0 - 1, 0 - 1, 1, 1 >>, << 1, 0 - 1, 0 - 1, 1 >>,
           << 1000 >>),
    Source(0, 0, 0, << 1, 2, 3 >>, << 0 >>, << 1000 >>) }

\* the constant position (5, 5), one frame per second
SteadySource == Source(5, 5, 0, << 0 >>, << 0 >>, << 1000 >>)

\* x advancing by 2 every 1.3 s: a speed that is not a short decimal
DriftSource == Source(0, 0, 0, << 2 >>, << 0 >>, << 1300 >>)

Scenarios ==
  {RampSource, SteadySource, DriftSource} \cup AlternatingSources
    \cup StillSources \cup MovingSources

\* s has supplied exactly the frames passed so far
Supplied(s) ==
  \A i \in 1..Len(inputs) : Input(FrameAt(s, i)) = inputs[i]

NextInputs ==
  { Input(FrameAt(s, Len(inputs) + 1)) : s \in {c \in Scenarios : Supplied(c)} }

\* ------------------------------------------------------------------------
\* The tracker under its callers
\* ------------------------------------------------------------------------
Init ==
  /\ kalmanFilter = NewKalmanFilter
  /\ lastTimestamp = Null
  /\ lastPosition = Null
  /\ lastVelocity = Null
  /\ motionHistory = << >>
  /\ call = [op |-> "new"]
  /\ inputs = << >>
  /\ returned = << >>
  /\ resets = 0
  /\ estimator = NewKalmanFilter
  /\ estimatorLog = << >>
  /\ twin = NewMotionTracker
  /\ InitVision

Track ==
  /\ Len(inputs) < MaxCalls
  /\ \E f \in NextInputs : track(f.position, f.timestamp)

AnalyzeMotion == analyzeMotion

Reset ==
  /\ resets < MaxResets
  /\ reset

Next == Track \/ AnalyzeMotion \/ Reset

Spec == Init /\ [][Next]_vars

\* ------------------------------------------------------------------------
\* A KalmanFilter used directly: any constructor arguments, then predict()
\* and update() calls in any order
\* ------------------------------------------------------------------------
MaxEstimatorCalls == 3

InitialPoints == {Point(Zero, Zero), Point(Num(3), Num(4))}
TimeSteps == {Zero, One, Dec(5, 1)}
Measurements == {Point(Zero, Zero), Point(Num(5), Num(0 - 2))}

InitEstimator ==
  /\ kalmanFilter = NewKalmanFilter
  /\ lastTimestamp = Null
  /\ lastPosition = Null
  /\ lastVelocity = Null
  /\ motionHistory = << >>
  /\ call = [op |-> "new"]
  /\ inputs = << >>
  /\ returned = << >>
  /\ resets = 0
  /\ \E p \in InitialPoints, q \in {Zero, Dec(1, 1)}, r \in {Zero, One} :
       estimator = KalmanFilter(p.x, p.y, q, r)
  /\ estimatorLog = << >>
  /\ twin = NewMotionTracker
  /\ InitVision

EstimatorPredict ==
  /\ Len(estimatorLog) < MaxEstimatorCalls
  /\ \E dt \in TimeSteps :
     \E predicted \in {predict(estimator, dt)} :
       /\ estimator' = predicted
       /\ estimatorLog' =
            Append(estimatorLog, [op |-> "predict", dt |-> dt,
                                  result |-> predictResult(predicted)])
  /\ UNCHANGED << trackerVars, call, inputs, returned, resets, twin,
                  visionVars >>

EstimatorUpdate ==
  /\ Len(estimatorLog) < MaxEstimatorCalls
  /\ \E m \in Measurements :
       /\ estimator' = update(estimator, m)
       /\ estimatorLog' =
            Append(estimatorLog, [op |-> "update", measurement |-> m])
  /\ UNCHANGED << trackerVars, call, inputs, returned, resets, twin,
                  visionVars >>

NextEstimator == EstimatorPredict \/ EstimatorUpdate

SpecEstimator == InitEstimator /\ [][NextEstimator]_vars

\* ------------------------------------------------------------------------
\* The analysis requests: the two server actions called with any selection,
\* and the page, which passes the selection of the context
\* ------------------------------------------------------------------------
Environments ==
  [VISION_PROVIDER : {"", "auto"} \cup Providers,
   ENABLE_FALLBACK : {"", "false"},
   OLLAMA_BASE_URL : {""},
   MOONDREAM_LOCAL_URL : {""},
   MOONDREAM_API_KEY : {"", "key"}]

Selections == {Undefined, "auto"} \cup Providers

AnalysisTypes == {"emotion", "fatigue"}

AnalysisTypeLists == {<< "emotion", "fatigue" >>, << "fatigue" >>}

InitProvider ==
  /\ kalmanFilter = NewKalmanFilter
  /\ lastTimestamp = Null
  /\ lastPosition = Null
  /\ lastVelocity = Null
  /\ motionHistory = << >>
  /\ call = [op |-> "new"]
  /\ inputs = << >>
  /\ returned = << >>
  /\ resets = 0
  /\ estimator = NewKalmanFilter
  /\ estimatorLog = << >>
  /\ twin = NewMotionTracker
  /\ env \in Environments
  /\ providerStatus \in [Providers -> {"up", "partial", "down"}]
  /\ selectedProvider = mount(NoItem).selectedProvider
  /\ localStorage = mount(NoItem).localStorage
  /\ served = NothingServed
  /\ InitCalls

ProcessImageWithUserSelection ==
  /\ \E analysisType \in AnalysisTypes, userSelectedProvider \in Selections :
       \E r \in {processImageWithUserSelection(analysisType, userSelectedProvider)} :
         served' = Served("processImageWithUserSelection", userSelectedProvider,
                          << analysisType >>, r.called, << r.result >>)
  /\ UNCHANGED << trackerVars, call, inputs, returned, resets, estimator,
                  estimatorLog, twin, env, providerStatus, selectedProvider,
                  localStorage, now, analysisCache, moondreamLocalCache, calls >>

ProcessImageWithUserSelectionMultipleTypes ==
  /\ \E analysisTypes \in AnalysisTypeLists, userSelectedProvider \in Selections :
       \E r \in {processImageWithUserSelectionMultipleTypes(analysisTypes,
                                                            userSelectedProvider)} :
         served' = Served("processImageWithUserSelectionMultipleTypes",
                          userSelectedProvider, analysisTypes, r.called, r.results)
  /\ UNCHANGED << trackerVars, call, inputs, returned, resets, estimator,
                  estimatorLog, twin, env, providerStatus, selectedProvider,
                  localStorage, now, analysisCache, moondreamLocalCache, calls >>

ProcessImage ==
  /\ \E analysisType \in AnalysisTypes :
       \E r \in {processImage(analysisType)} :
         served' = Served("processImage", Undefined, << analysisType >>,
                          r.called, << r.result >>)
  /\ UNCHANGED << trackerVars, call, inputs, returned, resets, estimator,
                  estimatorLog, twin, env, providerStatus, selectedProvider,
                  localStorage, now, analysisCache, moondreamLocalCache, calls >>

\* handleAnalysis of the page: the selection of the context is passed on
HandleAnalysis ==
  /\ \E analysisTypes \in AnalysisTypeLists :
       \E r \in {processImageWithUserSelectionMultipleTypes(analysisTypes,
                                                            selectedProvider)} :
         served' = Served("handleAnalysis", selectedProvider, analysisTypes,
                          r.called, r.results)
  /\ UNCHANGED << trackerVars, call, inputs, returned, resets, estimator,
                  estimatorLog, twin, env, providerStatus, selectedProvider,
                  localStorage, now, analysisCache, moondreamLocalCache, calls >>

\* setSelectedProvider(provider) of the context, and the effect that
\* saves the selection
SetSelectedProvider ==
  /\ \E provider \in {"auto"} \cup Providers :
       /\ selectedProvider' = provider
       /\ localStorage' = IF provider # "auto" THEN provider ELSE localStorage
  /\ UNCHANGED << trackerVars, call, inputs, returned, resets, estimator,
                  estimatorLog, twin, env, providerStatus, served, now, analysisCache, moondreamLocalCache, calls >>

\* the page is loaded again: VisionProviderProvider mounts and reads
\* localStorage
Reload ==
  /\ selectedProvider' = mount(localStorage).selectedProvider
  /\ localStorage' = mount(localStorage).localStorage
  /\ UNCHANGED << trackerVars, call, inputs, returned, resets, estimator,
                  estimatorLog, twin, env, providerStatus, served, now, analysisCache, moondreamLocalCache, calls >>

NextProvider ==
  \/ ProcessImageWithUserSelection
  \/ ProcessImageWithUserSelectionMultipleTypes
  \/ HandleAnalysis
  \/ SetSelectedProvider
  \/ Reload
  \/ ProcessImage

SpecProvider == InitProvider /\ [][NextProvider]_vars

\* ------------------------------------------------------------------------
\* Two trackers fed in step: each receives the frames of a source, and the
\* two sources have the same timestamps
\* ------------------------------------------------------------------------
MaxPairedCalls == 12

\* s has supplied exactly the frames passed to the second tracker so far
SuppliedTwin(s) ==
  \A i \in 1..Len(twin.inputs) : Input(FrameAt(s, i)) = twin.inputs[i]

NextTwinInputs ==
  { Input(FrameAt(s, Len(twin.inputs) + 1)) :
      s \in {c \in Scenarios : SuppliedTwin(c)} }

TrackBoth ==
  /\ Len(inputs) < MaxPairedCalls
  /\ \E f \in NextInputs : \E g \in NextTwinInputs :
       /\ g.timestamp = f.timestamp
       /\ trackCall(f.position, f.timestamp)
       /\ twin' = trackOn(twin, g.position, g.timestamp)
  /\ UNCHANGED << resets, estimator, estimatorLog, visionVars >>

ResetBoth ==
  /\ resets < MaxResets
  /\ kalmanFilter' = NewKalmanFilter
  /\ lastTimestamp' = Null
  /\ lastPosition' = Null
  /\ lastVelocity' = Null
  /\ motionHistory' = << >>
  /\ call' = [op |-> "reset", dropped |-> Len(motionHistory)]
  /\ inputs' = << >>
  /\ returned' = << >>
  /\ resets' = resets + 1
  /\ twin' = NewMotionTracker
  /\ UNCHANGED << estimator, estimatorLog, visionVars >>

NextChannels == TrackBoth \/ ResetBoth

SpecChannels == Init /\ [][NextChannels]_vars

\* ------------------------------------------------------------------------
\* The provider functions called with frames of a video, a backend that
\* answers or fails each request, and time passing
\* ------------------------------------------------------------------------
MaxProviderCalls == 2
MaxTime == 3000

\* canvas.toDataURL('image/jpeg', 0.9): "data:image/jpeg;base64," and the
\* encoded file, whose first bytes (the JFIF header and the quantisation
\* tables) are the same for every frame; the first 100 characters of every
\* frame are equal
JpegPrefix == [i \in 1..100 |-> "j"]

\* two frames of the camera and an uploaded PNG file (readAsDataURL)
Images ==
  { JpegPrefix \o << "a" >>, JpegPrefix \o << "b" >>,
    [i \in 1..100 |-> "p"] \o << "a" >> }

\* analysis type and custom prompt, as the callers pass them
Requests == { << "emotion", Undefined >>, << "custom", "p" >> }

otherVars ==
  << trackerVars, call, inputs, returned, resets, estimator, estimatorLog,
     twin, env, providerStatus, selectedProvider, served, localStorage >>

\* a caller invokes one of the two functions, after the calls before it
\* have returned
StartCall ==
  /\ Len(calls) < MaxProviderCalls
  /\ \A i \in DOMAIN calls : calls[i].pc = "done"
  /\ \E provider \in {"ollama", "moondream_local"}, imageData \in Images,
        r \in Requests :
       calls' = Append(calls, startCall(provider, imageData, r[1], r[2]))
  /\ UNCHANGED << now, analysisCache, moondreamLocalCache, otherVars >>

\* the fetch of the call i settles: response.ok, or an error response or a
\* rejected promise, which both make fn throw
FetchSettlesFor(i) ==
  /\ i \in DOMAIN calls
  /\ calls[i].pc = "fetching"
  /\ \E ok \in BOOLEAN :
     \E c \in {finishCall(retryWithBackoff(
                  [calls[i] EXCEPT !.responses = Append(@, ok)], ok))} :
       /\ calls' = [calls EXCEPT ![i] = c]
       /\ analysisCache' =
            IF c.provider = "ollama" THEN cacheAfter(analysisCache, c)
            ELSE analysisCache
       /\ moondreamLocalCache' =
            IF c.provider = "ollama" THEN moondreamLocalCache
            ELSE cacheAfter(moondreamLocalCache, c)
  /\ UNCHANGED << now, otherVars >>

\* the timer of the call i fires, at wakeAt or later, and fn is called again
TimerFiresFor(i) ==
  /\ i \in DOMAIN calls
  /\ calls[i].pc = "waiting"
  /\ now' = IF now < calls[i].wakeAt THEN calls[i].wakeAt ELSE now
  /\ calls' = [calls EXCEPT ![i].pc = "fetching", ![i].attempts = @ + 1]
  /\ UNCHANGED << analysisCache, moondreamLocalCache, otherVars >>

\* a second passes between two calls
Tick ==
  /\ now < MaxTime
  /\ \A i \in DOMAIN calls : calls[i].pc = "done"
  /\ now' = now + 1000
  /\ UNCHANGED << analysisCache, moondreamLocalCache, calls, otherVars >>

NextCall ==
  \/ StartCall
  \/ \E i \in 1..MaxProviderCalls : FetchSettlesFor(i)
  \/ \E i \in 1..MaxProviderCalls : TimerFiresFor(i)
  \/ Tick

SpecCall == Init /\ [][NextCall]_vars

\* every fetch settles (the runtime's fetch times out) and every timer fires
FairSpecCall ==
  /\ SpecCall
  /\ \A i \in 1..MaxProviderCalls :
       WF_vars(FetchSettlesFor(i)) /\ WF_vars(TimerFiresFor(i))

\* ------------------------------------------------------------------------
\* Properties
\* ------------------------------------------------------------------------
Min(a, b) == IF a < b THEN a ELSE b

FiniteVector(v) == \A i \in 1..Len(v) : IsFinite(v[i])
FinitePoint(p) == IsFinite(p.x) /\ IsFinite(p.y)
FiniteSample(m) ==
  FinitePoint(m.position) /\ FinitePoint(m.velocity) /\ FinitePoint(m.acceleration)

\* the sample a bootstrap track(position, timestamp) returns
BootstrapSample(input) ==
  [position |-> input.position, velocity |-> Point(Zero, Zero),
   acceleration |-> Point(Zero, Zero), timestamp |-> input.timestamp]

Analysed == call.op = "analyzeMotion"

\* C1: after n track() calls since construction or the last reset() the
\* history holds exactly min(n, 10) samples, never more than 10, and they are
\* the min(n, 10) most recently returned samples in call order
C1_BoundedHistory ==
  LET n == Len(returned)
      k == Min(n, 10)
  IN  /\ Len(motionHistory) = k
      /\ Len(motionHistory) <= 10
      /\ motionHistory = SubSeq(returned, n - k + 1, n)

\* after 15 calls the history holds the samples 6..15
C1_Witness ==
  /\ Len(returned) = 15
  /\ Len(motionHistory) = 10
  /\ motionHistory[1] = returned[6]
  /\ motionHistory[10] = returned[15]
  /\ motionHistory[1].timestamp < motionHistory[10].timestamp

\* C2: the first track(position, timestamp) on a fresh or just-reset tracker
\* returns the sample (position, velocity (0,0), acceleration (0,0),
\* timestamp), appends exactly that sample to the history, and runs no
\* predict/update on the estimator
C2_Bootstrap ==
  Len(inputs) = 1 =>
    /\ returned = << BootstrapSample(inputs[1]) >>
    /\ motionHistory = << BootstrapSample(inputs[1]) >>
    /\ call.op = "track" => call.result = BootstrapSample(inputs[1])
    /\ kalmanFilter = NewKalmanFilter

\* a first call after a reset, at a position away from the origin
C2_Witness ==
  /\ Len(inputs) = 1
  /\ call.op = "track"
  /\ resets = 1
  /\ inputs[1].position = Point(Num(3), Num(4))
  /\ call.result.position = Point(Num(3), Num(4))

\* C3: reset() leaves the tracker in the state of a freshly constructed one
\* (empty history, null lastTimestamp/lastPosition/lastVelocity, estimator
\* with zero state and diag(100) covariance), so that every later call
\* returns what it returns on a fresh tracker
C3_ResetIsFresh ==
  call.op = "reset" =>
    /\ motionHistory = << >>
    /\ lastTimestamp = Null /\ lastPosition = Null /\ lastVelocity = Null
    /\ kalmanFilter.state = << Zero, Zero, Zero, Zero >>
    /\ \A i, j \in 1..4 :
         kalmanFilter.covariance[i][j] = IF i = j THEN Num(100) ELSE Zero
    /\ kalmanFilter.processNoise = Dec(1, 1)
    /\ kalmanFilter.measurementNoise = One
    /\ inputs = << >> /\ returned = << >>

\* a reset that discarded a full history
C3_Witness == call.op = "reset" /\ call.dropped = 10

\* C4: with fewer than 2 samples in the history analyzeMotion() returns
\* {0, 0, false, "none", "insufficient data"}
C4_InsufficientData ==
  (Analysed /\ Len(motionHistory) < 2) =>
    call.result = [averageSpeed |-> Zero, maxSpeed |-> Zero,
                   isMoving |-> FALSE, dominantDirection |-> "none",
                   motionPattern |-> "insufficient data"]

\* analyzeMotion() after exactly one track() call
C4_Witness == Analysed /\ Len(motionHistory) = 1

\* the ramp x = t, y = 0, t = 0..9 has been tracked and analysed
RampAnalysed ==
  /\ Analysed
  /\ Len(inputs) = 10
  /\ \A i \in 1..10 :
       inputs[i] = [position |-> Point(Num(i - 1), Zero),
                    timestamp |-> 1000 * (i - 1)]

\* C5: after the 10 ramp samples analyzeMotion().motionPattern is "linear"
C5_RampIsLinear == RampAnalysed => call.result.motionPattern = "linear"

\* C6: after the 10 ramp samples analyzeMotion().dominantDirection is "east"
C6_RampIsEast == RampAnalysed => call.result.dominantDirection = "east"

\* n >= 5 samples with x = +10, -10, +10, ... (y constant, one per second)
\* have been tracked and analysed
AlternatingAnalysed ==
  /\ Analysed
  /\ Len(inputs) >= 5
  /\ \A i \in 1..Len(inputs) :
       /\ inputs[i].position.x = IF i % 2 = 1 THEN Num(10) ELSE Num(0 - 10)
       /\ inputs[i].position.y = inputs[1].position.y
       /\ inputs[i].timestamp = inputs[1].timestamp + 1000 * (i - 1)

\* C7: after n >= 5 alternating samples analyzeMotion().motionPattern is
\* "oscillating"
C7_AlternatingOscillates ==
  AlternatingAnalysed => call.result.motionPattern = "oscillating"

\* exactly 5 alternating samples, on the line y = 0
C7_Witness ==
  /\ AlternatingAnalysed
  /\ Len(inputs) = 5
  /\ inputs[1].position.y = Zero
  /\ call.result.motionPattern = "oscillating"

\* C8: a track() whose timestamp does not exceed the previous one (dt <= 0)
\* either rejects the sample (history, last* and estimator unchanged) or
\* works with a dt clamped to a positive value, and in either case the
\* returned sample, the history and the estimator state hold no NaN or
\* Infinity
C8_DegenerateDtHandled ==
  [][ ( /\ lastTimestamp # Null
        /\ Len(inputs') = Len(inputs) + 1
        /\ inputs'[Len(inputs')].timestamp <= lastTimestamp[1] )
      => ( /\ \/ UNCHANGED trackerVars
              \/ Gt(call'.dt[1], Zero)
           /\ FiniteSample(call'.result)
           /\ \A i \in 1..Len(motionHistory') : FiniteSample(motionHistory'[i])
           /\ FiniteVector(kalmanFilter'.state) ) ]_vars

\* C9: update() skips the update when the innovation covariance S is
\* singular (det(S) = 0), leaving state and covariance as they were, and no
\* NaN or Infinity enters the estimator state through update()
C9_SingularSkipped ==
  [][ ( /\ Len(estimatorLog') = Len(estimatorLog) + 1
        /\ estimatorLog'[Len(estimatorLog')].op = "update"
        /\ FiniteVector(estimator.state) )
      => ( /\ determinant(innovationCovariance(estimator)) = Zero
                => estimator' = estimator
           /\ FiniteVector(estimator'.state) ) ]_vars

\* C10: the first track(position, timestamp) initialises the estimator at
\* the position: its state becomes [position.x, position.y, 0, 0]
C10_EstimatorAtPosition ==
  Len(inputs) = 1 =>
    kalmanFilter.state =
      << inputs[1].position.x, inputs[1].position.y, Zero, Zero >>

\* a track() call after the first has just returned
TrackedAgain == call.op = "track" /\ call.dt # Null

\* C11: on every track() call after the first the returned sample's position
\* and velocity are the estimator's state (x, y, dx, dy) as it is after both
\* predict(dt) and update(position) of that call
C11_SampleIsFiltered ==
  TrackedAgain =>
    /\ call.result.position = Point(kalmanFilter.state[1], kalmanFilter.state[2])
    /\ call.result.velocity = Point(kalmanFilter.state[3], kalmanFilter.state[4])

\* the tolerance of the convergence claim: 0.001
Epsilon == Dec(1, 3)

Near(a, b) == Lt(MathAbs(Sub(a, b)), Epsilon)

\* n >= 20 samples at the constant position (5, 5), one per second, have
\* been tracked
SteadyTracked ==
  /\ Len(inputs) >= 20
  /\ \A i \in 1..Len(inputs) :
       inputs[i] = [position |-> Point(Num(5), Num(5)),
                    timestamp |-> 1000 * (i - 1)]

\* C12: after n >= 20 samples at the constant position (5, 5) with dt = 1 s
\* the filtered position is within Epsilon of (5, 5) and the filtered
\* velocity within Epsilon of (0, 0), in the estimator state and in the
\* sample returned by the latest track(), and this holds for every later
\* sample as well
C12_SteadyConverges ==
  SteadyTracked =>
    /\ Near(kalmanFilter.state[1], Num(5)) /\ Near(kalmanFilter.state[2], Num(5))
    /\ Near(kalmanFilter.state[3], Zero) /\ Near(kalmanFilter.state[4], Zero)
    /\ Near(returned[Len(returned)].position.x, Num(5))
    /\ Near(returned[Len(returned)].position.y, Num(5))
    /\ Near(returned[Len(returned)].velocity.x, Zero)
    /\ Near(returned[Len(returned)].velocity.y, Zero)

\* 25 samples tracked; the third sample was still far from (5, 5) and the
\* estimate is not exactly the measurement
C12_Witness ==
  /\ SteadyTracked
  /\ Len(inputs) = 25
  /\ ~ Near(returned[3].position.x, Num(5))
  /\ kalmanFilter.state[1] # Num(5)
  /\ Near(kalmanFilter.state[1], Num(5))

\* C13: track() and analyzeMotion() never throw, whatever the sequence of
\* calls, positions and timestamps (duplicate and decreasing timestamps
\* included)
C13_NeverThrows ==
  call.op \in {"track", "analyzeMotion"} => ~ call.threw

\* a track() with a repeated timestamp has stored a NaN acceleration and
\* analyzeMotion() has returned a result for that history
C13_Witness ==
  /\ Analysed
  /\ ~ call.threw
  /\ Len(motionHistory) >= 3
  /\ \E i \in 1..Len(motionHistory) : motionHistory[i].acceleration.x = NaN
  /\ \E i \in 2..Len(inputs) : inputs[i].timestamp = inputs[i - 1].timestamp

\* C14: the estimator, the history and the last* fields change only in
\* track() and reset(); analyzeMotion() leaves them as they are, and an
\* analyzeMotion() directly after another returns an equal result
C14_AnalyzeMotionReadsOnly ==
  [][ /\ trackerVars' # trackerVars => call'.op \in {"track", "reset"}
      /\ call'.op = "analyzeMotion" =>
           /\ UNCHANGED trackerVars
           /\ call.op = "analyzeMotion" => call'.result = call.result ]_vars

\* an analysis of a full history that classified the motion
C14_Witness ==
  /\ Analysed
  /\ Len(motionHistory) = historySize
  /\ call.result.motionPattern = "oscillating"
  /\ call.result.dominantDirection # "none"

\* every sample of h has |ax| < 0.1 and |ay| < 0.1
AllAccelerationsSmall(h) ==
  \A i \in 1..Len(h) :
    /\ Lt(MathAbs(h[i].acceleration.x), Dec(1, 1))
    /\ Lt(MathAbs(h[i].acceleration.y), Dec(1, 1))

\* the consecutive samples of h between which vx or vy changes sign
SignChanges(h) ==
  { i \in 2..Len(h) :
      \/ MathSign(h[i].velocity.x) # MathSign(h[i - 1].velocity.x)
      \/ MathSign(h[i].velocity.y) # MathSign(h[i - 1].velocity.y) }

\* the circular test applied to the velocities of h
CircularTest(h) ==
  detectCircularMotion(Tab([i \in 1..Len(h) |-> h[i].velocity], Len(h)))

FiniteVelocities(h) == \A i \in 1..Len(h) : FinitePoint(h[i].velocity)

\* the pattern the priority order of the rules gives for h
PatternByPriority(h) ==
  IF AllAccelerationsSmall(h) THEN "linear"
  ELSE IF Cardinality(SignChanges(h)) >= 2 THEN "oscillating"
  ELSE IF CircularTest(h) THEN "circular"
  ELSE "complex"

CompassLabels ==
  {"east", "northeast", "north", "northwest",
   "west", "southwest", "south", "southeast"}

\* C15: with at least 3 samples motionPattern is given by the first matching
\* rule in the order linear (all |ax|, |ay| < 0.1), oscillating (at least 2
\* sign changes of vx or vy between consecutive samples), circular,
\* complex; with exactly 2 samples it is "insufficient data" while
\* averageSpeed, maxSpeed and dominantDirection are computed
C15_PatternPriority ==
  (Analysed /\ FiniteVelocities(motionHistory)) =>
    /\ Len(motionHistory) >= 3 =>
         call.result.motionPattern = PatternByPriority(motionHistory)
    /\ Len(motionHistory) = 2 =>
         /\ call.result.motionPattern = "insufficient data"
         /\ call.result.dominantDirection \in CompassLabels
         /\ call.result.maxSpeed # NInf
         /\ call.result.averageSpeed =
              Div(Add(MathSqrt(Add(Mul(motionHistory[1].velocity.x,
                                       motionHistory[1].velocity.x),
                                   Mul(motionHistory[1].velocity.y,
                                       motionHistory[1].velocity.y))),
                      MathSqrt(Add(Mul(motionHistory[2].velocity.x,
                                       motionHistory[2].velocity.x),
                                   Mul(motionHistory[2].velocity.y,
                                       motionHistory[2].velocity.y)))),
                  Num(2))

\* a window that satisfies both the linear and the oscillating condition
\* and is classified "linear"
C15_Witness ==
  /\ Analysed
  /\ Len(motionHistory) >= 3
  /\ FiniteVelocities(motionHistory)
  /\ AllAccelerationsSmall(motionHistory)
  /\ Cardinality(SignChanges(motionHistory)) >= 2
  /\ call.result.motionPattern = "linear"

\* the compass labels of the samples of h, in history order
Labels(h) ==
  Tab([i \in 1..Len(h) |->
         getDirection(MathAtan2(h[i].velocity.y, h[i].velocity.x))], Len(h))

Occurrences(ls, l) == Cardinality({i \in 1..Len(ls) : ls[i] = l})
FirstOccurrence(ls, l) ==
  CHOOSE i \in 1..Len(ls) : ls[i] = l /\ \A j \in 1..(i - 1) : ls[j] # l

\* d occurs most often in ls, and earlier than any other label as frequent
MostFrequentFirst(ls, d) ==
  /\ \E i \in 1..Len(ls) : ls[i] = d
  /\ \A i \in 1..Len(ls) :
       \/ Occurrences(ls, ls[i]) < Occurrences(ls, d)
       \/ /\ Occurrences(ls, ls[i]) = Occurrences(ls, d)
          /\ FirstOccurrence(ls, d) <= FirstOccurrence(ls, ls[i])

\* C16: with at least 2 samples dominantDirection is the label occurring
\* most often among the per-sample labels of the window, among labels with
\* the same highest count the one occurring first in the history, and it
\* is one of the 8 compass labels when all velocities are finite
C16_DominantDirection ==
  (Analysed /\ Len(motionHistory) >= 2 /\ FiniteVelocities(motionHistory)) =>
    /\ call.result.dominantDirection \in CompassLabels
    /\ MostFrequentFirst(Labels(motionHistory), call.result.dominantDirection)

\* a window in which two labels share the highest count and the later one
\* is not returned
C16_Witness ==
  /\ Analysed
  /\ Len(motionHistory) >= 2
  /\ FiniteVelocities(motionHistory)
  /\ \E i \in 1..Len(motionHistory) :
       LET ls == Labels(motionHistory)
       IN  /\ ls[i] # call.result.dominantDirection
           /\ Occurrences(ls, ls[i]) =
                Occurrences(ls, call.result.dominantDirection)
           /\ FirstOccurrence(ls, ls[i]) >
                FirstOccurrence(ls, call.result.dominantDirection)

\* the Euclidean norms of the stored velocities, in history order
Speeds(h) ==
  [i \in 1..Len(h) |->
     MathSqrt(Add(Mul(h[i].velocity.x, h[i].velocity.x),
                  Mul(h[i].velocity.y, h[i].velocity.y)))]

\* the sum of the speeds in index order, divided by their number
Mean(speeds) == Div(SumTo(speeds, Len(speeds)), Num(Len(speeds)))

\* m is one of the speeds and none is greater
IsMaximum(speeds, m) ==
  /\ \E i \in 1..Len(speeds) : speeds[i] = m
  /\ \A i \in 1..Len(speeds) : ~ Gt(speeds[i], m)

\* averageSpeed, maxSpeed and isMoving as computed from the window
SpeedStatistics(h, r) ==
  /\ r.averageSpeed = Mean(Speeds(h))
  /\ IsMaximum(Speeds(h), r.maxSpeed)
  /\ ~ Lt(r.averageSpeed, Zero)
  /\ r.isMoving = Gt(r.averageSpeed, Dec(5, 1))
  /\ (r.averageSpeed = Dec(5, 1) => ~ r.isMoving)

\* the relative rounding error a sum of historySize terms can carry
RoundingSlack == Dec(1000001, 6)

\* C17 (as stated): with at least 2 samples averageSpeed is the mean and
\* maxSpeed the maximum of the norms of the stored velocities,
\* 0 <= averageSpeed <= maxSpeed, and isMoving is true exactly when
\* averageSpeed > 0.5
C17_MeanWithinMax ==
  (Analysed /\ Len(motionHistory) >= 2) =>
    /\ SpeedStatistics(motionHistory, call.result)
    /\ ~ Gt(call.result.averageSpeed, call.result.maxSpeed)

\* C17 (amended): with at least 2 samples averageSpeed is the rounded sum
\* of the speeds divided by their number, maxSpeed is the greatest speed,
\* averageSpeed >= 0, isMoving is true exactly when averageSpeed > 0.5, and
\* averageSpeed exceeds maxSpeed by no more than the rounding of the sum
C17_SpeedStatistics ==
  (Analysed /\ Len(motionHistory) >= 2 /\ FiniteVelocities(motionHistory)) =>
    /\ SpeedStatistics(motionHistory, call.result)
    /\ ~ Gt(call.result.averageSpeed,
            Mul(call.result.maxSpeed, RoundingSlack))

\* a full window of nearly equal speeds whose rounded mean is above the
\* greatest of them, the target being reported as moving
C17_Witness ==
  /\ Analysed
  /\ Len(motionHistory) = historySize
  /\ call.result.isMoving
  /\ Gt(call.result.averageSpeed, call.result.maxSpeed)
  /\ IsMaximum(Speeds(motionHistory), call.result.maxSpeed)

\* a request has been served
Requested == served.op # "none"

\* a configured provider other than p would have answered the analysis
OtherAnswers(p, analysisType) ==
  \E q \in Providers \ {p} :
    /\ checkProviderAvailability(q, getVisionConfig)
    /\ Answers(q, analysisType)

\* C18: when the user has explicitly selected a provider, both functions
\* call that provider only, at most once, also when it fails or is not
\* configured and the fallback is enabled; each returned result names the
\* selected provider and is a success exactly when the provider is
\* configured and answers, otherwise a success:false result
C18_OnlySelectedProviderCalled ==
  (Requested /\ served.userSelectedProvider \in Providers) =>
    /\ Len(served.called) <= 1
    /\ \A i \in 1..Len(served.called) :
         served.called[i].provider = served.userSelectedProvider
    /\ Len(served.results) = Len(served.analysisTypes)
    /\ \A i \in 1..Len(served.results) :
         /\ served.results[i].provider = served.userSelectedProvider
         /\ served.results[i].success =
              ( /\ checkProviderAvailability(served.userSelectedProvider,
                                             getVisionConfig)
                /\ Answers(served.userSelectedProvider, served.analysisTypes[i]) )

\* the selected provider fails while the fallback is enabled and another
\* configured provider would have answered: the failure is returned and no
\* other provider has been called
C18_Witness ==
  /\ Requested
  /\ served.op = "processImageWithUserSelectionMultipleTypes"
  /\ served.userSelectedProvider = "moondream_local"
  /\ getVisionConfig.enableFallback
  /\ Len(served.called) = 1
  /\ \E i \in 1..Len(served.results) :
       /\ ~ served.results[i].success
       /\ OtherAnswers("moondream_local", served.analysisTypes[i])

\* C19: in auto-select mode ('auto' passed as the selected provider) with
\* the fallback enabled, when the primary provider fails an analysis the
\* remaining configured providers are tried and the first success among
\* them is returned in place of the failure
C19_AutoFallsBack ==
  (Requested /\ served.userSelectedProvider = "auto"
     /\ getVisionConfig.enableFallback /\ served.called # << >>) =>
    \A i \in 1..Len(served.results) :
      ( /\ ~ Answers(served.called[1].provider, served.analysisTypes[i])
        /\ OtherAnswers(served.called[1].provider, served.analysisTypes[i]) )
      => /\ served.results[i].success
         /\ served.results[i].provider # served.called[1].provider
         /\ Len(served.called) > 1

\* the first provider of fallbackOrder that is available
FirstAvailable ==
  Head(SelectSeq(fallbackOrder,
                 LAMBDA p : isProviderAvailable(p, getVisionConfig)))

\* C20: when Auto Select is chosen the provider used is the first available
\* one in the order Ollama, Moondream Local, Moondream Cloud, whatever
\* VISION_PROVIDER is set to
C20_AutoSelectOrder ==
  (Requested /\ served.userSelectedProvider = "auto"
     /\ served.called # << >>) =>
    served.called[1].provider = FirstAvailable

\* the differences between the velocities of successive samples of h
VelocityDifferences(h) ==
  Tab([i \in 1..(Len(h) - 1) |->
         Point(Sub(h[i + 1].velocity.x, h[i].velocity.x),
               Sub(h[i + 1].velocity.y, h[i].velocity.y))], Len(h) - 1)

\* a x b and a . b of two plane vectors
Cross(a, b) == Sub(Mul(a.x, b.y), Mul(a.y, b.x))
Dot(a, b) == Add(Mul(a.x, b.x), Mul(a.y, b.y))

\* the sum of the signed angles by which each vector of d turns from the
\* one before it
TurningSum(d) ==
  SumTo([i \in 1..(Len(d) - 1) |->
           MathAtan2(Cross(d[i], d[i + 1]), Dot(d[i], d[i + 1]))],
        Len(d) - 1)

\* the vectors of d are non-zero and all point the same way
SameDirection(d) ==
  /\ \A i \in 1..Len(d) : d[i] # Point(Zero, Zero)
  /\ \A i \in 1..(Len(d) - 1) :
       Cross(d[i], d[i + 1]) = Zero /\ Gt(Dot(d[i], d[i + 1]), Zero)

\* C24: with at least 3 samples and neither the linear nor the oscillating
\* rule matching, motionPattern is "circular" exactly when the absolute
\* value of the sum of the signed turning angles between successive
\* velocity-difference vectors exceeds 1.5*pi; a window whose
\* velocity-difference vectors all point in the same direction is
\* "complex", not "circular"
C24_CircularByTurning ==
  (Analysed /\ Len(motionHistory) >= 3 /\ FiniteVelocities(motionHistory)
     /\ ~ AllAccelerationsSmall(motionHistory)
     /\ Cardinality(SignChanges(motionHistory)) < 2) =>
    Bind(VelocityDifferences(motionHistory), LAMBDA d :
      /\ call.result.motionPattern = "circular"
           <=> Gt(MathAbs(TurningSum(d)), Mul(PI, Dec(15, 1)))
      /\ SameDirection(d) => call.result.motionPattern = "complex")

\* a window of straight motion with every velocity difference along one
\* direction that is classified "circular"
C24_StraightIsCircular ==
  /\ Analysed
  /\ Len(motionHistory) >= 3
  /\ SameDirection(VelocityDifferences(motionHistory))
  /\ call.result.motionPattern = "circular"

\* (b - a) / dt, component by component
Rate(a, b, dt) == Point(Div(Sub(b.x, a.x), dt), Div(Sub(b.y, a.y), dt))

\* the time in seconds between the frames k - 1 and k passed to track()
FrameDt(k) == Div(Num(inputs[k].timestamp - inputs[k - 1].timestamp), Num(1000))

\* the velocity between the raw positions of the frames k - 1 and k; (0,0)
\* for the first frame
RawVelocity(k) ==
  IF k = 1 THEN Point(Zero, Zero)
  ELSE Rate(inputs[k - 1].position, inputs[k].position, FrameDt(k))

\* C25: on every track() call after the first, with
\* dt = (timestamp - lastTimestamp) / 1000, the sample's acceleration is
\* (rawVelocity - lastRawVelocity) / dt with
\* rawVelocity = (position - lastPosition) / dt; lastPosition and
\* lastVelocity are then the raw position and the raw velocity, lastVelocity
\* after the bootstrap call is (0,0), and the acceleration is determined by
\* the frames alone, whatever the estimator holds
C25_RawAcceleration ==
  /\ [][ (call'.op = "track" /\ inputs' # inputs /\ ~ call'.threw) =>
           IF lastTimestamp = Null
             THEN /\ lastPosition' = Some(call'.position)
                  /\ lastVelocity' = Some(Point(Zero, Zero))
             ELSE Bind(Rate(lastPosition[1], call'.position, call'.dt[1]),
                       LAMBDA rawVelocity :
                    /\ call'.dt[1] =
                         Div(Num(call'.timestamp - lastTimestamp[1]), Num(1000))
                    /\ call'.result.acceleration =
                         Rate(lastVelocity[1], rawVelocity, call'.dt[1])
                    /\ lastPosition' = Some(call'.position)
                    /\ lastVelocity' = Some(rawVelocity)) ]_vars
  /\ [](\A k \in 2..Len(returned) :
          returned[k].acceleration =
            Rate(RawVelocity(k - 1), RawVelocity(k), FrameDt(k)))

\* a later track() call whose sample has a non-zero acceleration and a
\* filtered velocity different from the raw velocity kept in lastVelocity
C25_Witness ==
  /\ call.op = "track"
  /\ Len(returned) >= 3
  /\ Len(returned) = Len(inputs)
  /\ call.result.acceleration # Point(Zero, Zero)
  /\ FinitePoint(call.result.acceleration)
  /\ lastVelocity # Some(call.result.velocity)
  /\ lastPosition = Some(call.position)
  /\ lastPosition # Some(call.result.position)

\* the last call made on the estimator
LastEstimatorCall == estimatorLog[Len(estimatorLog)]

\* diag(100, 100, 100, 100)
InitialCovariance ==
  [i \in 1..4 |-> [j \in 1..4 |-> IF i = j THEN Num(100) ELSE Zero]]

\* C26: a new KalmanFilter(initialX, initialY) has state
\* [initialX, initialY, 0, 0] and covariance diag(100,100,100,100);
\* predict(dt) maps the state [x, y, vx, vy] to
\* [x + vx*dt, y + vy*dt, vx, vy], leaving both velocity components
\* unchanged, and returns exactly the new state as {x, y, dx, dy}
C26_ConstantVelocityPredict ==
  /\ [](estimatorLog = << >> =>
          /\ \E p \in InitialPoints :
               estimator.state = << p.x, p.y, Zero, Zero >>
          /\ estimator.covariance = InitialCovariance)
  /\ [][ ( /\ Len(estimatorLog') = Len(estimatorLog) + 1
           /\ estimatorLog'[Len(estimatorLog')].op = "predict" ) =>
         Bind2(estimator.state, estimatorLog'[Len(estimatorLog')],
               LAMBDA s, c :
           /\ estimator'.state =
                << Add(s[1], Mul(s[3], c.dt)), Add(s[2], Mul(s[4], c.dt)),
                   s[3], s[4] >>
           /\ c.result = [x |-> estimator'.state[1], y |-> estimator'.state[2],
                          dx |-> estimator'.state[3],
                          dy |-> estimator'.state[4]]) ]_vars

\* a predict() with dt > 0 on a filter that has a velocity: the position
\* moved and the velocity stayed
C26_Witness ==
  /\ estimatorLog # << >>
  /\ LastEstimatorCall.op = "predict"
  /\ LastEstimatorCall.dt = Dec(5, 1)
  /\ Len(estimatorLog) >= 3
  /\ estimatorLog[Len(estimatorLog) - 1].op = "update"
  /\ FiniteVector(estimator.state)
  /\ estimator.state[3] # Zero
  /\ LastEstimatorCall.result.dx = estimator.state[3]

\* a >= 0 as JavaScript evaluates it
NonNegative(a) == a = Zero \/ Gt(a, Zero)

\* every predict() made on the estimator had dt > 0
PositiveTimeSteps ==
  \A i \in 1..Len(estimatorLog) :
    estimatorLog[i].op = "predict" => Gt(estimatorLog[i].dt, Zero)

Symmetric(matrix) ==
  \A i \in 1..Len(matrix) : \A j \in 1..Len(matrix) :
    matrix[i][j] = matrix[j][i]

\* C27: after any sequence of predict(dt) calls with dt > 0 and update()
\* calls on a KalmanFilter with non-negative noise parameters, the
\* covariance matrix is symmetric and positive semi-definite; in particular
\* every diagonal entry is >= 0
C27_CovarianceSymmetricPSD ==
  ( /\ PositiveTimeSteps
    /\ NonNegative(estimator.processNoise)
    /\ NonNegative(estimator.measurementNoise) ) =>
    /\ Symmetric(estimator.covariance)
    /\ \A i \in 1..4 : NonNegative(estimator.covariance[i][i])

\* two update() calls without measurement noise: the covariance holds NaN
C27_CovarianceLost ==
  /\ Len(estimatorLog) = 2
  /\ \A i \in 1..2 : estimatorLog[i].op = "update"
  /\ estimator.measurementNoise = Zero
  /\ \A i \in 1..4 : estimator.covariance[i][i] = NaN

\* predict(1); predict(1); update() with the default noise parameters: the
\* covariance is finite and not symmetric
C27_CovarianceSkewed ==
  /\ Len(estimatorLog) = 3
  /\ PositiveTimeSteps
  /\ estimator.processNoise = Dec(1, 1)
  /\ estimator.measurementNoise = One
  /\ \A i \in 1..4 : FiniteVector(estimator.covariance[i])
  /\ ~ Symmetric(estimator.covariance)

\* C28: in every reachable state of a MotionTracker lastTimestamp,
\* lastPosition and lastVelocity are all null or all non-null, and they are
\* null exactly when the motion history is empty; when non-null,
\* lastTimestamp is the timestamp of the newest sample of the history
C28_LastFieldsTogether ==
  /\ (lastTimestamp = Null) = (lastPosition = Null)
  /\ (lastTimestamp = Null) = (lastVelocity = Null)
  /\ (lastTimestamp = Null) = (motionHistory = << >>)
  /\ lastTimestamp # Null =>
       lastTimestamp = Some(motionHistory[Len(motionHistory)].timestamp)

\* a tracker that was reset and has tracked more frames than the history
\* holds since
C28_Witness ==
  /\ resets = 1
  /\ Len(inputs) > historySize
  /\ lastTimestamp = Some(inputs[Len(inputs)].timestamp)
  /\ lastPosition # Null
  /\ lastVelocity # Null
  /\ Len(motionHistory) = historySize

\* the frames passed to either tracker have strictly increasing timestamps
IncreasingTimestamps ==
  \A k \in 2..Len(inputs) : inputs[k].timestamp > inputs[k - 1].timestamp

\* the entries of a covariance that relate an x component of the state
\* (x, dx) to a y component (y, dy)
CrossTerms(covariance) ==
  { covariance[i][j] : i \in {1, 3}, j \in {2, 4} }
    \cup { covariance[i][j] : i \in {2, 4}, j \in {1, 3} }

OtherConfigured(primary) ==
  SelectSeq(<< "ollama", "moondream_local", "moondream" >>,
            LAMBDA p : p # primary /\ isProviderAvailable(p, getVisionConfig))

\* the positions of seq whose provider answers the analysis
Answering(seq, analysisType) ==
  {i \in 1..Len(seq) : Answers(seq[i], analysisType)}

\* the providers a request called, in call order
CalledProviders == [i \in 1..Len(served.called) |-> served.called[i].provider]

\* C21: in processImage, when the primary provider's result is not
\* successful and the fallback is enabled, every other configured provider
\* is tried in the order ollama, moondream_local, moondream until one
\* succeeds; the first successful fallback result is returned, no provider
\* is tried after a success, the primary is never tried twice, and if every
\* provider fails the primary's failed result is returned; with the
\* fallback disabled only the primary is called
C21_FallbackOrder ==
  (served.op = "processImage" /\ served.called # << >>) =>
    LET analysisType == served.analysisTypes[1]
        primary == served.called[1].provider
        others == OtherConfigured(primary)
        hits == Answering(others, analysisType)
        tried == IF hits = {} THEN Len(others)
                 ELSE CHOOSE i \in hits : \A j \in hits : i <= j
        result == served.results[1]
    IN  /\ \A i, j \in 1..Len(served.called) :
             served.called[i].provider = served.called[j].provider => i = j
        /\ IF Answers(primary, analysisType) \/ ~ getVisionConfig.enableFallback
             THEN /\ CalledProviders = << primary >>
                  /\ result.provider = primary
                  /\ result.success = Answers(primary, analysisType)
           ELSE /\ CalledProviders = << primary >> \o SubSeq(others, 1, tried)
                /\ IF hits = {}
                     THEN ~ result.success /\ result.provider = primary
                   ELSE result.success /\ result.provider = others[tried]
                /\ \A i \in 1..(Len(CalledProviders) - 1) :
                     ~ Answers(CalledProviders[i], analysisType)

\* the primary and the first fallback failed and the second fallback, the
\* cloud service, answered
C21_Witness ==
  /\ served.op = "processImage"
  /\ Len(served.called) = 3
  /\ served.called[1].provider = "moondream_local"
  /\ served.results[1].success
  /\ served.results[1].provider = "moondream"

\* every provider failed and the failure of the primary is returned
C21_AllFailed ==
  /\ served.op = "processImage"
  /\ Len(served.called) = 3
  /\ ~ served.results[1].success

\* C23: the user's provider choice persists across browser sessions: for
\* every selectable provider p (auto, ollama, moondream_local, moondream),
\* after setSelectedProvider(p) followed by a reload the selected provider
\* is again p
C23_SelectionPersists ==
  [][Reload => selectedProvider' = selectedProvider]_vars

\* 'auto' is selected and the stored preference names another provider
C23_AutoNotSaved ==
  /\ selectedProvider = "auto"
  /\ localStorage \in Providers

\* the calls that went to the provider and have returned
Finished(c) == c.pc = "done" /\ ~ c.fromCache

\* C30: a provider call through retryWithBackoff attempts the request at
\* most 4 times, waiting 1000, 2000 and 4000 ms before the retries, stops
\* at the first attempt that succeeds, and always terminates: after the 4th
\* failure processImageWithOllama / processImageWithMoondreamLocal return a
\* success:false result rather than throwing or retrying further
C30_RetryTerminates ==
  /\ [](\A i \in DOMAIN calls :
          LET c == calls[i]
          IN  /\ c.attempts <= 4
              /\ c.waits = SubSeq(<< 1000, 2000, 4000 >>, 1, Len(c.waits))
              /\ c.pc \in {"fetching", "waiting", "done"}
              /\ c.pc = "fetching" =>
                   Len(c.responses) = c.attempts - 1 /\ Len(c.waits) = c.attempts - 1
              /\ c.pc = "waiting" =>
                   Len(c.responses) = c.attempts /\ Len(c.waits) = c.attempts
              /\ \A k \in 1..(Len(c.responses) - 1) : ~ c.responses[k]
              /\ Finished(c) =>
                   /\ Len(c.responses) = c.attempts
                   /\ Len(c.waits) = c.attempts - 1
                   /\ c.result # Null
                   /\ c.result[1].success = c.responses[c.attempts]
                   /\ ~ c.result[1].success => c.attempts = 4)
  /\ [][\A i \in DOMAIN calls : calls[i].pc = "done" => calls'[i] = calls[i]]_vars
  /\ \A i \in 1..MaxProviderCalls :
       (i \in DOMAIN calls) ~> (i \in DOMAIN calls /\ calls[i].pc = "done")

\* a call that failed four times, after waits of 1000, 2000 and 4000 ms,
\* and returned a failure
C30_Witness ==
  \E i \in DOMAIN calls :
    /\ Finished(calls[i])
    /\ calls[i].attempts = 4
    /\ calls[i].waits = << 1000, 2000, 4000 >>
    /\ ~ calls[i].result[1].success
    /\ now >= calls[i].startedAt + 7000

\* a call that succeeded at its third attempt and made no fourth
C30_ThirdAttempt ==
  \E i \in DOMAIN calls :
    /\ Finished(calls[i])
    /\ calls[i].attempts = 3
    /\ calls[i].result[1].success

\* the earlier calls of the same function whose stored result the call i
\* may be given: same image, analysis type and custom prompt, stored less
\* than CACHE_DURATION before the call i started
FreshStores(i) ==
  { j \in 1..(i - 1) :
      /\ calls[j].provider = calls[i].provider
      /\ calls[j].imageData = calls[i].imageData
      /\ calls[j].analysisType = calls[i].analysisType
      /\ calls[j].customPrompt = calls[i].customPrompt
      /\ calls[j].storedAt # Null
      /\ calls[i].startedAt - calls[j].storedAt[1] < CACHE_DURATION }

\* the stored results are successes, and a call that failed stored nothing
OnlySuccessesStored ==
  /\ \A key \in DOMAIN analysisCache : analysisCache[key].result.success
  /\ \A key \in DOMAIN moondreamLocalCache :
       moondreamLocalCache[key].result.success
  /\ \A i \in DOMAIN calls :
       calls[i].storedAt # Null =>
         calls[i].result # Null /\ calls[i].result[1].success

\* a result served from the cache is younger than CACHE_DURATION
ServedFresh ==
  \A i \in DOMAIN calls :
    calls[i].fromCache =>
      \E j \in 1..(i - 1) :
        /\ calls[j].storedAt # Null
        /\ calls[j].result = calls[i].result
        /\ calls[i].startedAt - calls[j].storedAt[1] < CACHE_DURATION

\* C22: processImageWithOllama and processImageWithMoondreamLocal return the
\* stored result without contacting the provider exactly when a successful
\* result for the same request (same image, analysis type and custom prompt)
\* was stored less than 3000 ms earlier; a result is never served at age
\* 3000 ms or more, a failed result is never stored, and a cached result is
\* never returned for a different image
C22_CachedForSameRequest ==
  /\ \A i \in DOMAIN calls :
       /\ calls[i].fromCache <=> FreshStores(i) # {}
       /\ calls[i].fromCache =>
            /\ calls[i].attempts = 0
            /\ calls[i].result[1].analysis.image = calls[i].imageData
  /\ ServedFresh
  /\ OnlySuccessesStored

\* a call is given, without a request to the provider, the analysis of
\* another frame
C22_OtherFrameServed ==
  \E i \in DOMAIN calls :
    /\ calls[i].fromCache
    /\ calls[i].attempts = 0
    /\ calls[i].result[1].analysis.image # calls[i].imageData
    /\ generateImageHash(calls[i].result[1].analysis.image)
         = generateImageHash(calls[i].imageData)

\* a call for the same frame three seconds after the result was stored
\* goes to the provider again
C22_Expired ==
  \E i \in DOMAIN calls : \E j \in 1..(i - 1) :
    /\ calls[j].provider = calls[i].provider
    /\ calls[j].imageData = calls[i].imageData
    /\ calls[j].analysisType = calls[i].analysisType
    /\ calls[j].storedAt # Null
    /\ calls[i].startedAt - calls[j].storedAt[1] = CACHE_DURATION
    /\ ~ calls[i].fromCache

====
